---------------------------- MODULE Spec2Model ----------------------------
(***************************************************************************)
(* backup-demon (src/main.py): an incremental file-backup daemon and its   *)
(* command-line interface.                                                 *)
(*                                                                         *)
(* The module models                                                       *)
(*   - the filesystem the daemon watches (source files, the mirror tree    *)
(*     under backup_destination),                                          *)
(*   - the three persisted documents (config.json, checksums.json and the  *)
(*     PID-marker file /tmp/backupd.pid),                                  *)
(*   - every process of the program: a command-line invocation (start,     *)
(*     stop, restart, add) and the daemon a start invocation detaches,     *)
(*     each with its position (pc) and its local variables.                *)
(*                                                                         *)
(* One action is one step of one process: the statements of main.py        *)
(* between two points at which another process can observe or change the   *)
(* shared files.  Three specifications share the actions:                  *)
(*   Spec        the backup engine: one supervised daemon cycling over the *)
(*               watched files while the environment edits them,           *)
(*   LifeSpec    the daemon lifecycle: concurrent start, stop and restart  *)
(*               invocations, signals and kills,                           *)
(*   ConfigSpec  the config document: the add command racing the daemon's  *)
(*               load of config.json.                                      *)
(***************************************************************************)
EXTENDS Integers, Sequences, FiniteSets, TLC

(***************************************************************************)
(* Bounds of the model.                                                    *)
(***************************************************************************)
\* watched source files /data/1 .. /data/MaxFiles
MaxFiles == 2
\* distinct file contents "1" .. "MaxContent"
MaxContent == 2
\* processes: command-line invocations and the daemons they become
MaxProcs == 3
\* edits the environment makes to the watched files and the backup tree
MaxEdits == 3
\* times the operator restarts a daemon that has died (Spec)
MaxRestarts == 1
MaxItems == 3

\* interval default of get_config_file
DefaultInterval == 300

Procs == 1..MaxProcs
Files == 1..MaxFiles
Contents == 1..MaxContent

(***************************************************************************)
(* Paths.  A path is the sequence of its components; the watched files     *)
(* live in the directory /data (DataDir), file f at /data/f.  A path whose *)
(* first component is 0 stands for a string is_valid_mac_path rejects (no  *)
(* leading '/', or a ':' in it).                                           *)
(***************************************************************************)
DataDir == <<1>>
FilePath(f) == <<1, f>>
FileOf(path) == path[2]
AllPaths == {DataDir} \cup {FilePath(f) : f \in Files}

\* backup destinations: 1 is the backup/ directory beside config.json, 2 another
\* directory; 0 stands for a string is_valid_mac_path rejects
DefaultDest == 1
OtherDest == 2
Dests == {DefaultDest, OtherDest}

\* the directory paste is invoked with
PasteDir == 3

VARIABLES
    \* ---- the filesystem
    src,            \* src[f]: content of source file f, 0 when it does not exist
    locked,         \* source files that exist but cannot be read (permissions)
    dst,            \* dst[f]: what lies at the mirror path of f under the default backup/
    dirs,           \* the directories that exist among backup/, the other destination
                    \* and the directory paste is invoked with
    dst2,           \* dst2[f]: what lies at the mirror path of f under the other destination
    pasted,         \* pasted[f]: what lies at the path of f under the paste directory
    \* ---- the persisted documents
    configFile,     \* config.json
    checksumsFile,  \* checksums.json
    marker,         \* /tmp/backupd.pid
    \* ---- the processes
    cmd,            \* cmd[p]: the command process p was invoked with
    pc,             \* pc[p]: where process p stands
    status,         \* status[p]: exit status of the invoked (foreground) process
    config,         \* config[p]: local `config`
    todo,           \* todo[p]: files of list_of_file_paths not yet iterated
    cur,            \* cur[p]: local `file_path`
    digest,         \* digest[p]: local `file_checksum`
    checksums,      \* checksums[p]: local `checksums`
    rpid,           \* rpid[p]: local `pid` of stop_daemon and of start_daemon's check
    arg,            \* arg[p]: the path argument of the command
    handlers,       \* daemons with atexit cleanup and SIGTERM handler installed
    sigterm,        \* processes with a SIGTERM pending
    \* ---- what the log records of the current cycle and of earlier ones
    loaded,         \* loaded[p]: the checksum document as the cycle loaded it
    attempted,      \* attempted[p]: files copy_file was called for in this cycle
    copied,         \* copied[p]: files copy_file reported copied in this cycle
    history,        \* history[f]: "new" | "failed" | "mirrored" for the current content
    interrupted,    \* files changed in a cycle that was killed before it saved
    lastWriter,     \* the process that wrote config.json last, 0 when none has
    age,            \* complete cycles since the environment last changed anything (capped)
    edits           \* edits the environment has made

fsVars == <<src, locked, dst, dirs, dst2, pasted>>
docVars == <<configFile, lastWriter, checksumsFile, marker>>
cycleVars == <<config, todo, cur, digest, checksums, loaded, attempted, copied>>
lifeVars == <<cmd, status, rpid, arg, handlers, sigterm>>
histVars == <<history, interrupted, age, edits>>
vars == <<src, locked, dst, dirs, dst2, pasted, configFile, checksumsFile, marker, cmd, pc, status,
          config, todo, cur, digest, checksums, rpid, arg, handlers, sigterm,
          loaded, attempted, copied, history, interrupted, lastWriter, age, edits>>

(***************************************************************************)
(* Values.                                                                 *)
(***************************************************************************)
\* an entry of the mirror tree
NoEntry == [kind |-> "none", data |-> 0]
DirEntry == [kind |-> "dir", data |-> 0]
\* the mirror path resolves to the source file itself (os.path.samefile)
SameEntry == [kind |-> "same", data |-> 0]
\* a destination file opened for writing and not yet written
PartialEntry == [kind |-> "partial", data |-> 0]
FileEntry(c) == [kind |-> "file", data |-> c]

\* the mapping of an empty checksum document
EmptyMap == [f \in {} |-> ""]
NoDigest == ""
NoConfig == [interval |-> 0, dest |-> 0, items |-> <<>>]

(***************************************************************************)
(* Pure functions of main.py.                                              *)
(***************************************************************************)
\* hashlib.md5(content).hexdigest(), the first eight digits, of the contents "1".."4"
Md5(c) == <<"c4ca4238", "c81e728d", "eccbc87e", "a87ff679">>[c]

\* checksums.get(file_path, "0")
ChecksumGet(map, f) == IF f \in DOMAIN map THEN map[f] ELSE "0"

\* checksums[file_path] = file_checksum
ChecksumPut(map, f, d) == [g \in (DOMAIN map) \cup {f} |-> IF g = f THEN d ELSE map[g]]

is_valid_mac_path(path) == path # <<>> /\ path[1] # 0

is_path_exist(path) ==
    IF path = DataDir THEN "directory"
    ELSE IF path \in {FilePath(f) : f \in Files} /\ src[FileOf(path)] # 0 THEN "file"
    ELSE "not exists"

\* the name of a path component as a string: the name of file 1 is "a", the name
\* of file 2 is "aa", and so on
Name(c) == [i \in 1..c |-> "a"]

\* a path as the string the code handles: every component after a separator
RECURSIVE Text(_)
Text(path) == IF path = <<>> THEN <<>> ELSE <<"/">> \o Name(Head(path)) \o Text(Tail(path))

\* str.startswith: string s is a prefix of string t
TextPrefix(s, t) == Len(s) <= Len(t) /\ \A i \in 1..Len(s) : s[i] = t[i]

\* a faulty test: other is a prefix of path as a string
IsStringPrefix(other, path) == TextPrefix(Text(other), Text(path))

\* os.path.commonpath([path, other]) == other: other is a prefix of path by components
IsPrefix(other, path) ==
    /\ Len(other) <= Len(path)
    /\ \A i \in 1..Len(other) : other[i] = path[i]

\* a faulty filter: a path is dropped when another path of the list lies under it
includes_no_other(path, list_of_paths) ==
    \A other_path \in list_of_paths : ~(path # other_path /\ IsPrefix(path, other_path))

not_included_in_other_directories(path, list_of_paths) ==
    \A other_path \in list_of_paths : ~(path # other_path /\ IsPrefix(other_path, path))

get_files_from_directory(directory_path) ==
    {q \in AllPaths : is_path_exist(q) = "file" /\ q # directory_path /\ IsPrefix(directory_path, q)}

SeqRange(s) == {s[i] : i \in 1..Len(s)}

\* lines 194-196
existing_paths_set(list_of_paths) ==
    {q \in SeqRange(list_of_paths) : is_path_exist(q) # "not exists"}

\* lines 197-200
pre_filtered_paths(list_of_paths) ==
    {q \in existing_paths_set(list_of_paths) :
        not_included_in_other_directories(q, existing_paths_set(list_of_paths))}

\* lines 201-207: the result is built as a set, every file is in it once
get_filtered_files_list(list_of_paths) ==
    UNION {IF is_path_exist(q) = "directory" THEN get_files_from_directory(q) ELSE {q}
           : q \in pre_filtered_paths(list_of_paths)}


(***************************************************************************)
(* Process exit.  sys.exit and an uncaught exception unwind the            *)
(* interpreter, which runs the atexit functions; a command-line process    *)
(* ends with the given status, a daemon (whose foreground process has      *)
(* exited at the fork) keeps the status its invocation returned.           *)
(***************************************************************************)
\* a faulty exit: the process ends without running the atexit functions
ExitPcNoCleanup(p) == "done"

ExitPc(p) == IF p \in handlers THEN "exiting" ELSE "done"
ExitStatus(p, code) == IF status[p] = "running" THEN code ELSE status[p]

\* the local variables of process p vanish with it
DropLocals(p) ==
    /\ config' = [config EXCEPT ![p] = NoConfig]
    /\ todo' = [todo EXCEPT ![p] = {}]
    /\ cur' = [cur EXCEPT ![p] = 0]
    /\ digest' = [digest EXCEPT ![p] = NoDigest]
    /\ checksums' = [checksums EXCEPT ![p] = EmptyMap]
    /\ loaded' = [loaded EXCEPT ![p] = EmptyMap]
    /\ attempted' = [attempted EXCEPT ![p] = {}]
    /\ copied' = [copied EXCEPT ![p] = {}]

InCycle == {"d_loop", "d_compare", "d_copy", "d_copying", "d_save"}

\* positions of a process that does not run: not yet invoked; returned or exited;
\* ended by a signal; a start refused at line 323; a restart that ended after its
\* stop_daemon and before its start_daemon forked; an add that reported success;
\* a command that reported an error about its argument and returned
NotRunning == {"idle", "done", "killed", "refused", "aborted", "added", "rejected",
               "removed", "cleared"}
Alive(p) == pc[p] \notin NotRunning
IsDaemon(p) == Alive(p) /\ status[p] = "ok"

(***************************************************************************)
(* get_config_file (lines 58-108), called by the daemon and by every       *)
(* command that reads the configuration.  It opens the file r+, parses and *)
(* validates it (GetConfigRead), then writes the validated document back   *)
(* through the same handle (GetConfigWrite).                               *)
(***************************************************************************)
DefaultConfig == [interval |-> DefaultInterval, dest |-> DefaultDest, items |-> <<>>]

Validated(doc) ==
    [interval |-> IF doc.interval < 0 THEN DefaultInterval ELSE doc.interval,
     dest     |-> IF doc.dest = 0 THEN DefaultDest ELSE doc.dest,
     items    |-> IF \A i \in 1..Len(doc.items) : is_valid_mac_path(doc.items[i])
                  THEN doc.items ELSE <<>>]

ConfigDoc(c) == [state |-> "ok", interval |-> c.interval, dest |-> c.dest, items |-> c.items]

\* the load ends the process: json.load raises JSONDecodeError on a document
\* that does not parse ("bad") and line 106 calls sys.exit(1); on a document
\* that parses to something other than an object ("notobject": a list, a
\* string, a number, null) line 73 or line 74 raises TypeError, which neither
\* except clause catches
Raises(doc) == doc.state \in {"bad", "notobject"}

\* lines 68-85 and 95-108: at, the pc of the call; wpc, the pc of the write-back;
\* ret, the pc the call returns to
GetConfigRead(p, at, wpc, ret) ==
    /\ pc[p] = at
    /\ IF configFile.state = "absent"
       THEN /\ configFile' = ConfigDoc(DefaultConfig)
            /\ lastWriter' = p
            /\ config' = [config EXCEPT ![p] = DefaultConfig]
            /\ pc' = [pc EXCEPT ![p] = ret]
            /\ status' = status
       ELSE IF Raises(configFile)
       THEN /\ pc' = [pc EXCEPT ![p] = ExitPc(p)]
            /\ status' = [status EXCEPT ![p] = ExitStatus(p, "fail")]
            /\ UNCHANGED <<configFile, lastWriter, config>>
       ELSE /\ config' = [config EXCEPT ![p] = Validated(configFile)]
            /\ pc' = [pc EXCEPT ![p] = wpc]
            /\ UNCHANGED <<configFile, lastWriter, status>>

\* lines 87-93: file.seek(0); json.dump(config, file); file.truncate()
GetConfigWrite(p, wpc, ret) ==
    /\ pc[p] = wpc
    /\ configFile' = ConfigDoc(config[p])
    /\ lastWriter' = p
    /\ pc' = [pc EXCEPT ![p] = ret]

(***************************************************************************)
(* daemon_main (lines 285-308), one cycle step by step.                    *)
(***************************************************************************)
\* line 290, first half
daemon_load_config(p) ==
    /\ GetConfigRead(p, "d_config", "d_cfgwrite", "d_list")
    /\ UNCHANGED <<fsVars, checksumsFile, marker, todo, cur, digest, checksums,
                   loaded, attempted, copied, cmd, rpid, arg, handlers, sigterm, histVars>>

\* line 290, second half
daemon_write_config(p) ==
    /\ GetConfigWrite(p, "d_cfgwrite", "d_list")
    /\ UNCHANGED <<fsVars, checksumsFile, marker, cycleVars, lifeVars, histVars>>

\* line 291
daemon_list_files(p) ==
    /\ pc[p] = "d_list"
    /\ todo' = [todo EXCEPT ![p] = {FileOf(q) : q \in get_filtered_files_list(config[p].items)}]
    /\ pc' = [pc EXCEPT ![p] = "d_load"]
    /\ UNCHANGED <<fsVars, docVars, config, cur, digest, checksums, loaded, attempted,
                   copied, lifeVars, histVars>>

\* line 292: get_checksums_json (lines 234-257)
get_checksums_json(p) ==
    /\ pc[p] = "d_load"
    /\ IF checksumsFile.state = "bad"
       THEN /\ pc' = [pc EXCEPT ![p] = ExitPc(p)]
            /\ status' = [status EXCEPT ![p] = ExitStatus(p, "fail")]
            /\ UNCHANGED <<checksumsFile, checksums, loaded>>
       ELSE /\ checksumsFile' = [state |-> "ok", map |-> checksumsFile.map]
            /\ checksums' = [checksums EXCEPT ![p] = checksumsFile.map]
            /\ loaded' = [loaded EXCEPT ![p] = checksumsFile.map]
            /\ pc' = [pc EXCEPT ![p] = "d_loop"]
            /\ status' = status
    /\ UNCHANGED <<fsVars, configFile, lastWriter, marker, config, todo, cur, digest, attempted,
                   copied, cmd, rpid, arg, handlers, sigterm, histVars>>

\* calculate_checksum (lines 210-231): None when the file cannot be read
calculate_checksum(f) ==
    IF src[f] = 0 \/ f \in locked THEN NoDigest ELSE Md5(src[f])

\* a faulty loop head: no file is skipped
SkipNever(d) == FALSE

\* line 296: file_checksum is None
Skip(d) == d = NoDigest

\* lines 294-297: the loop head takes the next file and hashes it; a file that
\* cannot be hashed is logged and skipped
daemon_next_file(p) ==
    /\ pc[p] = "d_loop"
    /\ IF todo[p] = {}
       THEN /\ pc' = [pc EXCEPT ![p] = "d_save"]
            /\ UNCHANGED <<todo, cur, digest, history>>
       ELSE \E f \in todo[p] :
            /\ todo' = [todo EXCEPT ![p] = @ \ {f}]
            /\ cur' = [cur EXCEPT ![p] = f]
            /\ digest' = [digest EXCEPT ![p] = calculate_checksum(f)]
            /\ IF Skip(calculate_checksum(f))
               THEN /\ pc' = [pc EXCEPT ![p] = "d_loop"]
                    /\ history' = [history EXCEPT ![f] = IF @ = "mirrored" THEN @ ELSE "failed"]
               ELSE /\ pc' = [pc EXCEPT ![p] = "d_compare"]
                    /\ history' = history
    /\ UNCHANGED <<fsVars, docVars, config, checksums, loaded, attempted, copied,
                   lifeVars, interrupted, age, edits>>

\* faulty comparisons: every hashed file counts as changed; a file whose mirror
\* path is taken already never does
ChangedAlways(p) == TRUE
ChangedUnlessPresent(p) ==
    /\ digest[p] # ChecksumGet(checksums[p], cur[p])
    /\ dst[cur[p]].kind \notin {"file", "partial"}

\* line 301: the file counts as changed
Changed(p) == digest[p] # ChecksumGet(checksums[p], cur[p])

\* lines 299-302
daemon_compare(p) ==
    /\ pc[p] = "d_compare"
    /\ IF Changed(p)
       THEN /\ checksums' = [checksums EXCEPT ![p] = ChecksumPut(@, cur[p], digest[p])]
            /\ pc' = [pc EXCEPT ![p] = "d_copy"]
       ELSE /\ checksums' = checksums
            /\ pc' = [pc EXCEPT ![p] = "d_loop"]
    /\ UNCHANGED <<fsVars, docVars, config, todo, cur, digest, loaded, attempted, copied,
                   lifeVars, histVars>>

\* line 303: os.path.join(config['backup_destination'], os.path.relpath(file_path,
\* '/')), and what lies there
Mirror(d, f) == IF d = DefaultDest THEN dst[f] ELSE dst2[f]

\* copy_file raises before it writes (lines 272-275, and shutil.copy2 opening a
\* source that cannot be read)
CopyFails(d, f) ==
    \/ Mirror(d, f).kind = "dir"
    \/ Mirror(d, f).kind = "same"
    \/ src[f] = 0
    \/ f \in locked

\* lines 303-304, copy_file lines 271-279 up to shutil.copy2 opening the
\* destination for writing, and lines 281-282
copy_file_begin(p) ==
    /\ pc[p] = "d_copy"
    /\ attempted' = [attempted EXCEPT ![p] = @ \cup {cur[p]}]
    /\ IF CopyFails(config[p].dest, cur[p])
       THEN /\ pc' = [pc EXCEPT ![p] = "d_loop"]
            /\ UNCHANGED <<dst, dst2, dirs>>
            /\ history' = [history EXCEPT ![cur[p]] = IF @ = "mirrored" THEN @ ELSE "failed"]
       ELSE /\ pc' = [pc EXCEPT ![p] = "d_copying"]
            /\ dst' = IF config[p].dest = DefaultDest
                      THEN [dst EXCEPT ![cur[p]] = PartialEntry] ELSE dst
            /\ dst2' = IF config[p].dest = DefaultDest
                       THEN dst2 ELSE [dst2 EXCEPT ![cur[p]] = PartialEntry]
            /\ dirs' = dirs \cup {config[p].dest}
            /\ history' = history
    /\ UNCHANGED <<src, locked, pasted, docVars, config, todo, cur, digest, checksums, loaded,
                   copied, lifeVars, interrupted, age, edits>>

\* a faulty copy: the destination is created and nothing is written to it
CopyResultTruncated(f) == PartialEntry

\* what shutil.copy2 leaves at the destination
CopyResult(f) == FileEntry(src[f])

\* copy_file lines 279-280: shutil.copy2 writes the content and returns
copy_file_end(p) ==
    /\ pc[p] = "d_copying"
    /\ dst' = IF config[p].dest = DefaultDest
              THEN [dst EXCEPT ![cur[p]] = CopyResult(cur[p])] ELSE dst
    /\ dst2' = IF config[p].dest = DefaultDest
               THEN dst2 ELSE [dst2 EXCEPT ![cur[p]] = CopyResult(cur[p])]
    /\ copied' = [copied EXCEPT ![p] = @ \cup {cur[p]}]
    /\ history' = [history EXCEPT ![cur[p]] = "mirrored"]
    /\ pc' = [pc EXCEPT ![p] = "d_loop"]
    /\ UNCHANGED <<src, locked, dirs, pasted, docVars, config, todo, cur, digest, checksums, loaded,
                   attempted, lifeVars, interrupted, age, edits>>

\* line 306, save_json_file line 123: open(path, 'w') truncates the document
save_checksums_open(p) ==
    /\ pc[p] = "d_save"
    /\ checksumsFile' = [state |-> "bad", map |-> EmptyMap]
    /\ pc' = [pc EXCEPT ![p] = "d_saving"]
    /\ UNCHANGED <<fsVars, configFile, lastWriter, marker, cycleVars, lifeVars, histVars>>

\* the document save_json_file writes
SavedChecksums(p) == [state |-> "ok", map |-> checksums[p]]

\* save_json_file lines 124-125: json.dump and close
save_checksums_write(p) ==
    /\ pc[p] = "d_saving"
    /\ checksumsFile' = SavedChecksums(p)
    /\ pc' = [pc EXCEPT ![p] = "d_saved"]
    /\ age' = IF age < 2 THEN age + 1 ELSE age
    /\ UNCHANGED <<fsVars, configFile, lastWriter, marker, cycleVars, lifeVars, history, interrupted, edits>>

\* lines 307-308: the cycle is logged as finished and the daemon goes to sleep;
\* the locals of the finished cycle are dead from here on
daemon_sleep(p) ==
    /\ pc[p] = "d_saved"
    /\ pc' = [pc EXCEPT ![p] = "d_sleep"]
    /\ todo' = [todo EXCEPT ![p] = {}]
    /\ cur' = [cur EXCEPT ![p] = 0]
    /\ digest' = [digest EXCEPT ![p] = NoDigest]
    /\ checksums' = [checksums EXCEPT ![p] = EmptyMap]
    /\ loaded' = [loaded EXCEPT ![p] = EmptyMap]
    /\ attempted' = [attempted EXCEPT ![p] = {}]
    /\ copied' = [copied EXCEPT ![p] = {}]
    /\ interrupted' = {}
    /\ UNCHANGED <<fsVars, docVars, config, lifeVars, history, age, edits>>

\* line 308 returns and line 289 starts the next cycle
daemon_wake(p) ==
    /\ pc[p] = "d_sleep"
    /\ pc' = [pc EXCEPT ![p] = "d_config"]
    /\ UNCHANGED <<fsVars, docVars, cycleVars, lifeVars, histVars>>

DaemonStep(p) ==
    \/ daemon_load_config(p)
    \/ daemon_write_config(p)
    \/ daemon_list_files(p)
    \/ get_checksums_json(p)
    \/ daemon_next_file(p)
    \/ daemon_compare(p)
    \/ copy_file_begin(p)
    \/ copy_file_end(p)
    \/ save_checksums_open(p)
    \/ save_checksums_write(p)
    \/ daemon_sleep(p)
    \/ daemon_wake(p)


(***************************************************************************)
(* The command line (main, lines 713-772): process p is invoked with a     *)
(* command.                                                                *)
(***************************************************************************)
FirstPc(c) ==
    CASE c = "start"   -> "s_exists"
      [] c = "stop"    -> "t_exists"
      [] c = "restart" -> "t_exists"
      [] c = "add"     -> "a_check"
      [] c = "list"    -> "l_config"
      [] c = "set_interval" -> "i_check"
      [] c = "change_destination" -> "c_check"
      [] c = "paste"   -> "p_check"
      [] c = "remove"  -> "r_check"
      [] c = "clear_destination" -> "k_config"

Invoke(p, c, a) ==
    /\ pc[p] = "idle"
    /\ cmd' = [cmd EXCEPT ![p] = c]
    /\ arg' = [arg EXCEPT ![p] = a]
    /\ pc' = [pc EXCEPT ![p] = FirstPc(c)]
    /\ UNCHANGED <<fsVars, docVars, cycleVars, status, rpid, handlers, sigterm, histVars>>

\* an exception inside restart() is caught by its `except Exception` (lines
\* 708-710) and the invocation returns normally; elsewhere it ends the process
\* with a traceback
RaiseStatus(p) == IF cmd[p] = "restart" THEN "ok" ELSE "fail"

(***************************************************************************)
(* start_daemon (lines 311-366).                                           *)
(***************************************************************************)
\* line 317: os.path.exists(pidfile)
start_exists(p) ==
    /\ pc[p] = "s_exists"
    /\ pc' = [pc EXCEPT ![p] = IF marker.exists THEN "s_read" ELSE "s_fork"]
    /\ UNCHANGED <<fsVars, docVars, cycleVars, lifeVars, histVars>>

\* a faulty check: a marker that holds a value does not stop the start
NeverRunning == FALSE

\* line 320: the marker holds a value, the start is refused
AlreadyRunning == marker.pid # 0

\* where a start_daemon that ends before its fork leaves the process
StartEnds(p, at) == IF cmd[p] = "restart" THEN "aborted" ELSE at

\* lines 318-323: open and read the marker; refuse when it holds a value
start_read(p) ==
    /\ pc[p] = "s_read"
    /\ IF ~marker.exists
       THEN \* FileNotFoundError
            /\ pc' = [pc EXCEPT ![p] = StartEnds(p, "done")]
            /\ status' = [status EXCEPT ![p] = RaiseStatus(p)]
       ELSE IF AlreadyRunning
       THEN \* sys.exit(1)
            /\ pc' = [pc EXCEPT ![p] = StartEnds(p, "refused")]
            /\ status' = [status EXCEPT ![p] = "fail"]
       ELSE /\ pc' = [pc EXCEPT ![p] = "s_fork"]
            /\ status' = status
    /\ UNCHANGED <<fsVars, docVars, cycleVars, cmd, rpid, arg, handlers, sigterm, histVars>>

\* lines 329-357: fork, setsid, fork; each parent exits with status 0 and the
\* grandchild goes on as the daemon
start_fork(p) ==
    /\ pc[p] = "s_fork"
    /\ status' = [status EXCEPT ![p] = "ok"]
    /\ pc' = [pc EXCEPT ![p] = "s_open"]
    /\ UNCHANGED <<fsVars, docVars, cycleVars, cmd, rpid, arg, handlers, sigterm, histVars>>

\* line 359: open(pidfile, 'w') creates or truncates the marker
start_open(p) ==
    /\ pc[p] = "s_open"
    /\ marker' = [exists |-> TRUE, pid |-> 0]
    /\ pc' = [pc EXCEPT ![p] = "s_write"]
    /\ UNCHANGED <<fsVars, configFile, lastWriter, checksumsFile, cycleVars, lifeVars, histVars>>

\* line 360 and the close of the with block: the pid reaches the file (written
\* through the open handle: an unlinked marker stays unlinked)
\* a faulty write: the pid is written only into a marker that holds none
WritePidfileIfFree(p) ==
    IF marker.exists /\ marker.pid = 0 THEN [exists |-> TRUE, pid |-> p] ELSE marker

\* line 360 through the handle of line 359
WritePidfile(p) == IF marker.exists THEN [exists |-> TRUE, pid |-> p] ELSE marker

start_write(p) ==
    /\ pc[p] = "s_write"
    /\ marker' = WritePidfile(p)
    /\ pc' = [pc EXCEPT ![p] = "s_register"]
    /\ UNCHANGED <<fsVars, configFile, lastWriter, checksumsFile, cycleVars, lifeVars, histVars>>

\* lines 362-366: atexit.register(remove_pidfile), signal(SIGTERM, ...), and
\* daemon_main is entered
start_register(p) ==
    /\ pc[p] = "s_register"
    /\ handlers' = handlers \cup {p}
    /\ pc' = [pc EXCEPT ![p] = "d_config"]
    /\ UNCHANGED <<fsVars, docVars, cycleVars, cmd, status, rpid, arg, sigterm, histVars>>

\* what remove_pidfile (lines 325-327) leaves of the marker: os.remove(pidfile)
RemovePidfile == [exists |-> FALSE, pid |-> 0]

\* the interpreter exits and runs remove_pidfile; os.remove raising on a missing
\* marker changes nothing
daemon_atexit(p) ==
    /\ pc[p] = "exiting"
    /\ marker' = RemovePidfile
    /\ pc' = [pc EXCEPT ![p] = "done"]
    /\ handlers' = handlers \ {p}
    /\ sigterm' = sigterm \ {p}
    /\ DropLocals(p)
    /\ UNCHANGED <<fsVars, configFile, lastWriter, checksumsFile, cmd, status, rpid, arg, histVars>>

\* the files a cycle had changed when the process died inside it
Unsaved(p) == IF pc[p] \in InCycle THEN attempted[p] ELSE {}

\* a pending SIGTERM is delivered: the handler of line 363 calls sys.exit(0);
\* without the handler the default disposition ends the process at once
deliver_sigterm(p) ==
    /\ p \in sigterm
    /\ Alive(p)
    /\ pc[p] # "exiting"
    /\ sigterm' = sigterm \ {p}
    /\ pc' = [pc EXCEPT ![p] = IF p \in handlers THEN "exiting" ELSE "killed"]
    /\ interrupted' = interrupted \cup Unsaved(p)
    /\ DropLocals(p)
    /\ UNCHANGED <<fsVars, docVars, cmd, status, rpid, arg, handlers, history, age, edits>>

\* a restart invocation between the return of its stop_daemon and the fork of its
\* start_daemon
BetweenStopAndStart(p) ==
    cmd[p] = "restart" /\ pc[p] \in {"s_exists", "s_read", "s_fork"}

\* SIGKILL, power loss: the process ends where it stands, nothing runs
Kill(p) ==
    /\ Alive(p)
    /\ pc' = [pc EXCEPT ![p] = IF BetweenStopAndStart(p) THEN "aborted" ELSE "killed"]
    /\ handlers' = handlers \ {p}
    /\ sigterm' = sigterm \ {p}
    /\ status' = [status EXCEPT ![p] = ExitStatus(p, "fail")]
    /\ interrupted' = interrupted \cup Unsaved(p)
    /\ DropLocals(p)
    /\ UNCHANGED <<fsVars, docVars, cmd, rpid, arg, history, age, edits>>

(***************************************************************************)
(* stop_daemon (lines 369-385) and restart (lines 690-710).                *)
(***************************************************************************)
\* where stop_daemon returns to: restart goes on with start_daemon
AfterStop(p) == IF cmd[p] = "restart" THEN "s_exists" ELSE "done"
StopStatus(p) == IF cmd[p] = "restart" THEN status[p] ELSE "ok"

\* line 374 and the else branch of lines 384-385
stop_exists(p) ==
    /\ pc[p] = "t_exists"
    /\ IF marker.exists
       THEN /\ pc' = [pc EXCEPT ![p] = "t_read"]
            /\ status' = status
       ELSE /\ pc' = [pc EXCEPT ![p] = AfterStop(p)]
            /\ status' = [status EXCEPT ![p] = StopStatus(p)]
    /\ UNCHANGED <<fsVars, docVars, cycleVars, cmd, rpid, arg, handlers, sigterm, histVars>>

\* lines 375-376: pid = int(f.read().strip()); a missing marker raises
\* FileNotFoundError, an empty one ValueError
stop_read(p) ==
    /\ pc[p] = "t_read"
    /\ IF ~marker.exists \/ marker.pid = 0
       THEN /\ pc' = [pc EXCEPT ![p] = "done"]
            /\ status' = [status EXCEPT ![p] = RaiseStatus(p)]
            /\ rpid' = rpid
       ELSE /\ pc' = [pc EXCEPT ![p] = "t_kill"]
            /\ rpid' = [rpid EXCEPT ![p] = marker.pid]
            /\ status' = status
    /\ UNCHANGED <<fsVars, docVars, cycleVars, cmd, arg, handlers, sigterm, histVars>>

\* a faulty stop: no signal is sent
SignalledNobody(pid) == {}

\* the processes os.kill(pid, SIGTERM) signals: none when no such process runs
\* (OSError, caught at lines 380-381)
Signalled(pid) == IF Alive(pid) THEN {pid} ELSE {}

\* lines 377-381
stop_kill(p) ==
    /\ pc[p] = "t_kill"
    /\ sigterm' = sigterm \cup Signalled(rpid[p])
    /\ pc' = [pc EXCEPT ![p] = "t_remove"]
    /\ UNCHANGED <<fsVars, docVars, cycleVars, cmd, status, rpid, arg, handlers, histVars>>

\* a faulty removal: the marker is removed only when the recorded process runs
MarkerKeptWhenGone(p) ==
    IF Alive(rpid[p]) THEN [exists |-> FALSE, pid |-> 0] ELSE marker

\* line 382 stands after the try block: the marker is removed whether or not the
\* signal could be sent
MarkerAfterStop(p) == [exists |-> FALSE, pid |-> 0]

\* lines 382-383: os.remove(pidfile); FileNotFoundError when it is gone already
stop_remove(p) ==
    /\ pc[p] = "t_remove"
    /\ IF marker.exists
       THEN /\ marker' = MarkerAfterStop(p)
            /\ pc' = [pc EXCEPT ![p] = AfterStop(p)]
            /\ status' = [status EXCEPT ![p] = StopStatus(p)]
       ELSE /\ marker' = marker
            /\ pc' = [pc EXCEPT ![p] = "done"]
            /\ status' = [status EXCEPT ![p] = RaiseStatus(p)]
    /\ UNCHANGED <<fsVars, configFile, lastWriter, checksumsFile, cycleVars, cmd, rpid, arg,
                   handlers, sigterm, histVars>>


(***************************************************************************)
(* The environment: users and other programs edit the watched files and    *)
(* the backup tree.  They do so between cycles, while no process of the    *)
(* program is at work.                                                     *)
(***************************************************************************)
EnvIdle == \A p \in Procs : pc[p] \in NotRunning \cup {"d_sleep"}

\* a source file is created or rewritten
EnvWrite(f, c) ==
    /\ EnvIdle
    /\ edits < MaxEdits
    /\ edits' = edits + 1
    /\ src[f] # c
    /\ src' = [src EXCEPT ![f] = c]
    /\ locked' = locked
    /\ history' = [history EXCEPT ![f] = "new"]
    /\ interrupted' = interrupted \ {f}
    /\ age' = 0
    /\ UNCHANGED <<dst, dirs, dst2, pasted, docVars, pc, cycleVars, lifeVars>>

\* a source file is deleted
EnvRemove(f) ==
    /\ EnvIdle
    /\ edits < MaxEdits
    /\ edits' = edits + 1
    /\ src[f] # 0
    /\ src' = [src EXCEPT ![f] = 0]
    /\ locked' = locked \ {f}
    /\ history' = [history EXCEPT ![f] = "new"]
    /\ interrupted' = interrupted \ {f}
    /\ age' = 0
    /\ UNCHANGED <<dst, dirs, dst2, pasted, docVars, pc, cycleVars, lifeVars>>

\* the read permission of a source file is taken away or given back
EnvChmod(f) ==
    /\ EnvIdle
    /\ edits < MaxEdits
    /\ edits' = edits + 1
    /\ src[f] # 0
    /\ locked' = IF f \in locked THEN locked \ {f} ELSE locked \cup {f}
    /\ interrupted' = interrupted \ {f}
    /\ age' = 0
    /\ UNCHANGED <<src, dst, dirs, dst2, pasted, docVars, pc, cycleVars, lifeVars, history>>

\* the mirror path of f is deleted, made a directory, or made the source itself
EnvDest(f, e) ==
    /\ EnvIdle
    /\ edits < MaxEdits
    /\ edits' = edits + 1
    /\ dst[f] # e
    /\ dst' = [dst EXCEPT ![f] = e]
    /\ dirs' = IF e = NoEntry THEN dirs ELSE dirs \cup {DefaultDest}
    /\ age' = 0
    /\ UNCHANGED <<src, locked, dst2, pasted, docVars, pc, cycleVars, lifeVars, history, interrupted>>

Env ==
    \/ \E f \in Files, c \in Contents : EnvWrite(f, c)
    \/ \E f \in Files : EnvRemove(f)
    \/ \E f \in Files : EnvChmod(f)
    \/ \E f \in Files, e \in {NoEntry, DirEntry, SameEntry} : EnvDest(f, e)

(***************************************************************************)
(* Spec: the backup engine.  Process 1 is a daemon that start_daemon has   *)
(* brought to daemon_main; the configuration watches the directory /data   *)
(* and, redundantly, the file /data/1.  The daemon can be killed at any    *)
(* point; when no process is left the operator runs restart.               *)
(***************************************************************************)
\* no backup has been made yet and nothing has been pasted
NoStore ==
    /\ dirs = {}
    /\ dst2 = [f \in Files |-> NoEntry]
    /\ pasted = [f \in Files |-> NoEntry]

WatchAll == [state |-> "ok", interval |-> DefaultInterval, dest |-> DefaultDest,
             items |-> <<DataDir, FilePath(1)>>]

InitProcs ==
    /\ cmd = [p \in Procs |-> "none"]
    /\ pc = [p \in Procs |-> "idle"]
    /\ status = [p \in Procs |-> "running"]
    /\ config = [p \in Procs |-> NoConfig]
    /\ todo = [p \in Procs |-> {}]
    /\ cur = [p \in Procs |-> 0]
    /\ digest = [p \in Procs |-> NoDigest]
    /\ checksums = [p \in Procs |-> EmptyMap]
    /\ rpid = [p \in Procs |-> 0]
    /\ arg = [p \in Procs |-> <<>>]
    /\ handlers = {}
    /\ sigterm = {}
    /\ loaded = [p \in Procs |-> EmptyMap]
    /\ attempted = [p \in Procs |-> {}]
    /\ copied = [p \in Procs |-> {}]

InitRunning ==
    /\ cmd = [p \in Procs |-> IF p = 1 THEN "start" ELSE "none"]
    /\ pc = [p \in Procs |-> IF p = 1 THEN "d_config" ELSE "idle"]
    /\ status = [p \in Procs |-> IF p = 1 THEN "ok" ELSE "running"]
    /\ config = [p \in Procs |-> NoConfig]
    /\ todo = [p \in Procs |-> {}]
    /\ cur = [p \in Procs |-> 0]
    /\ digest = [p \in Procs |-> NoDigest]
    /\ checksums = [p \in Procs |-> EmptyMap]
    /\ rpid = [p \in Procs |-> 0]
    /\ arg = [p \in Procs |-> <<>>]
    /\ handlers = {1}
    /\ sigterm = {}
    /\ loaded = [p \in Procs |-> EmptyMap]
    /\ attempted = [p \in Procs |-> {}]
    /\ copied = [p \in Procs |-> {}]
    /\ marker = [exists |-> TRUE, pid |-> 1]

InitHistory ==
    /\ history = [f \in Files |-> "new"]
    /\ interrupted = {}
    /\ age = 0
    /\ edits = 0

Init ==
    /\ src = [f \in Files |-> 1]
    /\ locked = {}
    /\ dst = [f \in Files |-> NoEntry]
    /\ NoStore
    /\ configFile = WatchAll
    /\ lastWriter = 0
    /\ checksumsFile = [state |-> "absent", map |-> EmptyMap]
    /\ InitRunning
    /\ InitHistory

NoneAlive == \A q \in Procs : ~Alive(q)

Supervise(p) ==
    /\ NoneAlive
    /\ p <= 1 + MaxRestarts
    /\ \A q \in Procs : q < p => pc[q] # "idle"
    /\ Invoke(p, "restart", <<>>)

Next ==
    \/ \E p \in Procs : DaemonStep(p)
    \/ \E p \in Procs : daemon_atexit(p)
    \/ \E p \in Procs : Kill(p)
    \/ \E p \in Procs : Supervise(p)
    \/ \E p \in Procs : stop_exists(p)
    \/ \E p \in Procs : stop_read(p)
    \/ \E p \in Procs : stop_kill(p)
    \/ \E p \in Procs : stop_remove(p)
    \/ \E p \in Procs : start_exists(p)
    \/ \E p \in Procs : start_fork(p)
    \/ \E p \in Procs : start_open(p)
    \/ \E p \in Procs : start_write(p)
    \/ \E p \in Procs : start_register(p)
    \/ Env

Spec == Init /\ [][Next]_vars


(***************************************************************************)
(* add_backup_item (lines 405-438).                                        *)
(***************************************************************************)
\* lines 411-423: the path is validated; an invalid or missing path is reported
\* and the command returns
add_check(p) ==
    /\ pc[p] = "a_check"
    /\ IF is_valid_mac_path(arg[p]) /\ is_path_exist(arg[p]) # "not exists"
       THEN /\ pc' = [pc EXCEPT ![p] = "a_config"]
            /\ status' = status
       ELSE /\ pc' = [pc EXCEPT ![p] = "rejected"]
            /\ status' = [status EXCEPT ![p] = "ok"]
    /\ UNCHANGED <<fsVars, docVars, cycleVars, cmd, rpid, arg, handlers, sigterm, histVars>>

\* line 425, first half
add_load_config(p) ==
    /\ GetConfigRead(p, "a_config", "a_cfgwrite", "a_append")
    /\ UNCHANGED <<fsVars, checksumsFile, marker, todo, cur, digest, checksums,
                   loaded, attempted, copied, cmd, rpid, arg, handlers, sigterm, histVars>>

\* line 425, second half
add_write_config(p) ==
    /\ GetConfigWrite(p, "a_cfgwrite", "a_append")
    /\ UNCHANGED <<fsVars, checksumsFile, marker, cycleVars, lifeVars, histVars>>

\* a faulty append: the list stays as it was
AppendNothing(items, path) == items

\* line 433: items_to_backup.append(absolute_path)
AppendItem(items, path) == Append(items, path)

\* a faulty membership test: the path is never found in the list
NeverListed(p) == FALSE

\* line 428: absolute_path in items_to_backup
AlreadyListed(p) == arg[p] \in SeqRange(config[p].items)

\* lines 426-434
add_append(p) ==
    /\ pc[p] = "a_append"
    /\ IF AlreadyListed(p)
       THEN /\ pc' = [pc EXCEPT ![p] = "done"]
            /\ status' = [status EXCEPT ![p] = "ok"]
            /\ config' = [config EXCEPT ![p] = NoConfig]
       ELSE /\ pc' = [pc EXCEPT ![p] = "a_save"]
            /\ status' = status
            /\ config' = [config EXCEPT ![p].items = AppendItem(@, arg[p])]
    /\ UNCHANGED <<fsVars, docVars, todo, cur, digest, checksums, loaded, attempted,
                   copied, cmd, rpid, arg, handlers, sigterm, histVars>>

\* config.json after open(path, 'w') and before json.dump has written
TruncatedConfig == [state |-> "bad", interval |-> 0, dest |-> 0, items |-> <<>>]

\* line 435, save_json_file line 123: open(path, 'w') truncates the document
add_save_open(p) ==
    /\ pc[p] = "a_save"
    /\ configFile' = TruncatedConfig
    /\ lastWriter' = p
    /\ pc' = [pc EXCEPT ![p] = "a_saving"]
    /\ UNCHANGED <<fsVars, checksumsFile, marker, cycleVars, lifeVars, histVars>>

\* save_json_file lines 124-125 and lines 437-438: the document is written and the
\* command reports success ("added") and returns
add_save_write(p) ==
    /\ pc[p] = "a_saving"
    /\ configFile' = ConfigDoc(config[p])
    /\ lastWriter' = p
    /\ pc' = [pc EXCEPT ![p] = "added"]
    /\ status' = [status EXCEPT ![p] = "ok"]
    /\ config' = [config EXCEPT ![p] = NoConfig]
    /\ UNCHANGED <<fsVars, checksumsFile, marker, todo, cur, digest, checksums, loaded,
                   attempted, copied, cmd, rpid, arg, handlers, sigterm, histVars>>

(***************************************************************************)
(* LifeSpec: the daemon lifecycle.  A fresh installation (no config.json,  *)
(* no checksums.json, no marker); every process is invoked once with       *)
(* a lifecycle command, in any order and at any time; any running process  *)
(* can be killed at any point.  Nothing is watched, so a cycle loads the   *)
(* two documents and saves the checksum document.                          *)
(***************************************************************************)
\* the commands process p can be invoked with (lines 751-772 of main): the first
\* invocation is a start, the second a start or a stop, every later one a stop or
\* a restart
Commands(p) ==
    IF p = 1 THEN {"start"}
    ELSE IF p = 2 THEN {"start", "stop"}
    ELSE {"stop", "restart"}

\* line 69: open(config_path, 'r+') raises an OSError other than
\* FileNotFoundError (no permission); nothing catches it
get_config_file_raise(p) ==
    /\ pc[p] = "d_config"
    /\ pc' = [pc EXCEPT ![p] = ExitPc(p)]
    /\ status' = [status EXCEPT ![p] = ExitStatus(p, "fail")]
    /\ UNCHANGED <<fsVars, docVars, cycleVars, cmd, rpid, arg, handlers, sigterm, histVars>>

NoConfigFile == [state |-> "absent", interval |-> 0, dest |-> 0, items |-> <<>>]

LifeInit ==
    /\ src = [f \in Files |-> 1]
    /\ locked = {}
    /\ dst = [f \in Files |-> NoEntry]
    /\ NoStore
    /\ configFile = NoConfigFile
    /\ lastWriter = 0
    /\ checksumsFile = [state |-> "absent", map |-> EmptyMap]
    /\ marker = [exists |-> FALSE, pid |-> 0]
    /\ InitProcs
    /\ InitHistory

LifeNext ==
    \/ \E p \in Procs : \E c \in Commands(p) : Invoke(p, c, <<>>)
    \/ \E p \in Procs : start_exists(p)
    \/ \E p \in Procs : start_read(p)
    \/ \E p \in Procs : start_fork(p)
    \/ \E p \in Procs : start_open(p)
    \/ \E p \in Procs : start_write(p)
    \/ \E p \in Procs : start_register(p)
    \/ \E p \in Procs : stop_exists(p)
    \/ \E p \in Procs : stop_read(p)
    \/ \E p \in Procs : stop_kill(p)
    \/ \E p \in Procs : stop_remove(p)
    \/ \E p \in Procs : daemon_load_config(p)
    \/ \E p \in Procs : daemon_write_config(p)
    \/ \E p \in Procs : get_config_file_raise(p)
    \/ \E p \in Procs : daemon_list_files(p)
    \/ \E p \in Procs : get_checksums_json(p)
    \/ \E p \in Procs : daemon_next_file(p)
    \/ \E p \in Procs : save_checksums_open(p)
    \/ \E p \in Procs : save_checksums_write(p)
    \/ \E p \in Procs : daemon_sleep(p)
    \/ \E p \in Procs : daemon_wake(p)
    \/ \E p \in Procs : deliver_sigterm(p)
    \/ \E p \in Procs : daemon_atexit(p)
    \/ \E p \in Procs : Kill(p)

LifeSpec == LifeInit /\ [][LifeNext]_vars

(***************************************************************************)
(* ConfigSpec: the config document.  Process 1 is a running daemon over an *)
(* empty configuration; the other processes are invoked with add.          *)
(***************************************************************************)
\* a path at which nothing exists
MissingPath == <<2>>

\* the paths add is invoked with: the directory, a file in it, a path with a colon,
\* a path at which nothing exists
AddArgs == {DataDir, FilePath(1), <<0, 1>>, MissingPath}

WatchNothing == ConfigDoc(DefaultConfig)

ConfigInit ==
    /\ src = [f \in Files |-> 1]
    /\ locked = {}
    /\ dst = [f \in Files |-> NoEntry]
    /\ NoStore
    /\ configFile = WatchNothing
    /\ lastWriter = 0
    /\ checksumsFile = [state |-> "absent", map |-> EmptyMap]
    /\ InitRunning
    /\ InitHistory

ConfigNext ==
    \/ \E p \in Procs : DaemonStep(p)
    \/ \E p \in Procs : daemon_atexit(p)
    \/ \E p \in Procs, a \in AddArgs : Invoke(p, "add", a)
    \/ \E p \in Procs : add_check(p)
    \/ \E p \in Procs : add_load_config(p)
    \/ \E p \in Procs : add_write_config(p)
    \/ \E p \in Procs : add_append(p)
    \/ \E p \in Procs : add_save_open(p)
    \/ \E p \in Procs : add_save_write(p)

ConfigSpec == ConfigInit /\ [][ConfigNext]_vars


(***************************************************************************)
(* CliSpec: the commands that edit the config document.  No daemon runs;   *)
(* every process is one invocation of the command line, and the            *)
(* invocations run side by side.                                           *)
(***************************************************************************)
CliInit ==
    /\ src = [f \in Files |-> 1]
    /\ locked = {}
    /\ dst = [f \in Files |-> NoEntry]
    /\ NoStore
    /\ configFile = WatchNothing
    /\ lastWriter = 0
    /\ checksumsFile = [state |-> "absent", map |-> EmptyMap]
    /\ marker = [exists |-> FALSE, pid |-> 0]
    /\ InitProcs
    /\ InitHistory

CliNext ==
    \/ \E p \in Procs, a \in AddArgs : Invoke(p, "add", a)
    \/ \E p \in Procs : add_check(p)
    \/ \E p \in Procs : add_load_config(p)
    \/ \E p \in Procs : add_write_config(p)
    \/ \E p \in Procs : add_append(p)
    \/ \E p \in Procs : add_save_open(p)
    \/ \E p \in Procs : add_save_write(p)

CliSpec == CliInit /\ [][CliNext]_vars


(***************************************************************************)
(* list_backup_items (lines 386-400).                                      *)
(***************************************************************************)
\* line 390, first half
list_load_config(p) ==
    /\ GetConfigRead(p, "l_config", "l_cfgwrite", "l_print")
    /\ UNCHANGED <<fsVars, checksumsFile, marker, todo, cur, digest, checksums,
                   loaded, attempted, copied, cmd, rpid, arg, handlers, sigterm, histVars>>

\* line 390, second half
list_write_config(p) ==
    /\ GetConfigWrite(p, "l_cfgwrite", "l_print")
    /\ UNCHANGED <<fsVars, checksumsFile, marker, cycleVars, lifeVars, histVars>>

\* lines 391-400: the list is printed and the command returns
list_print(p) ==
    /\ pc[p] = "l_print"
    /\ pc' = [pc EXCEPT ![p] = "done"]
    /\ status' = [status EXCEPT ![p] = "ok"]
    /\ config' = [config EXCEPT ![p] = NoConfig]
    /\ UNCHANGED <<fsVars, docVars, todo, cur, digest, checksums, loaded, attempted,
                   copied, cmd, rpid, arg, handlers, sigterm, histVars>>

(***************************************************************************)
(* update_sleep_interval (lines 475-491).                                  *)
(***************************************************************************)
\* lines 481-484: an interval that is not positive is reported and the command
\* returns
interval_check(p) ==
    /\ pc[p] = "i_check"
    /\ IF arg[p] <= 0
       THEN /\ pc' = [pc EXCEPT ![p] = "rejected"]
            /\ status' = [status EXCEPT ![p] = "ok"]
       ELSE /\ pc' = [pc EXCEPT ![p] = "i_config"]
            /\ status' = status
    /\ UNCHANGED <<fsVars, docVars, cycleVars, cmd, rpid, arg, handlers, sigterm, histVars>>

\* line 486, first half
interval_load_config(p) ==
    /\ GetConfigRead(p, "i_config", "i_cfgwrite", "i_save")
    /\ UNCHANGED <<fsVars, checksumsFile, marker, todo, cur, digest, checksums,
                   loaded, attempted, copied, cmd, rpid, arg, handlers, sigterm, histVars>>

\* line 486, second half
interval_write_config(p) ==
    /\ GetConfigWrite(p, "i_cfgwrite", "i_save")
    /\ UNCHANGED <<fsVars, checksumsFile, marker, cycleVars, lifeVars, histVars>>

\* lines 487-488, save_json_file line 123: the interval is set and open(path, 'w')
\* truncates the document
interval_save_open(p) ==
    /\ pc[p] = "i_save"
    /\ config' = [config EXCEPT ![p].interval = arg[p]]
    /\ configFile' = TruncatedConfig
    /\ lastWriter' = p
    /\ pc' = [pc EXCEPT ![p] = "i_saving"]
    /\ UNCHANGED <<fsVars, checksumsFile, marker, todo, cur, digest, checksums, loaded,
                   attempted, copied, lifeVars, histVars>>

\* save_json_file lines 124-125 and lines 490-491
interval_save_write(p) ==
    /\ pc[p] = "i_saving"
    /\ configFile' = ConfigDoc(config[p])
    /\ lastWriter' = p
    /\ pc' = [pc EXCEPT ![p] = "done"]
    /\ status' = [status EXCEPT ![p] = "ok"]
    /\ config' = [config EXCEPT ![p] = NoConfig]
    /\ UNCHANGED <<fsVars, checksumsFile, marker, todo, cur, digest, checksums, loaded,
                   attempted, copied, cmd, rpid, arg, handlers, sigterm, histVars>>

(***************************************************************************)
(* LoadSpec: loading the config document.  config.json is absent or holds  *)
(* any parseable document: an object whose fields are valid or not, or     *)
(* something that is not an object.  The processes are invocations of      *)
(* list, add and set_interval, run one after the other.                    *)
(***************************************************************************)
\* an interval that fails the test of line 73 (missing, not an integer, negative)
BadInterval == 0 - 1

\* an interval set_interval accepts
SomeInterval == 60

IntervalArgs == {0, SomeInterval}

\* items_to_backup as found in config.json: valid lists and lists with a path
\* that is_valid_mac_path rejects
LoadItems == {<<>>, <<DataDir>>, << <<0, 1>> >>, <<DataDir, <<0, 1>> >>}

NotAnObject == [state |-> "notobject", interval |-> 0, dest |-> 0, items |-> <<>>]

LoadDocs ==
    {[state |-> "ok", interval |-> i, dest |-> d, items |-> l] :
        i \in {BadInterval, 0, DefaultInterval}, d \in {0} \cup Dests, l \in LoadItems}
    \cup {NotAnObject, NoConfigFile}

LoadInit ==
    /\ src = [f \in Files |-> 1]
    /\ locked = {}
    /\ dst = [f \in Files |-> NoEntry]
    /\ NoStore
    /\ configFile \in LoadDocs
    /\ lastWriter = 0
    /\ checksumsFile = [state |-> "absent", map |-> EmptyMap]
    /\ marker = [exists |-> FALSE, pid |-> 0]
    /\ InitProcs
    /\ InitHistory

LoadNext ==
    \/ \E p \in Procs : NoneAlive /\ Invoke(p, "list", <<>>)
    \/ \E p \in Procs, a \in {DataDir, MissingPath} : NoneAlive /\ Invoke(p, "add", a)
    \/ \E p \in Procs, a \in IntervalArgs : NoneAlive /\ Invoke(p, "set_interval", a)
    \/ \E p \in Procs : list_load_config(p)
    \/ \E p \in Procs : list_write_config(p)
    \/ \E p \in Procs : list_print(p)
    \/ \E p \in Procs : add_check(p)
    \/ \E p \in Procs : add_load_config(p)
    \/ \E p \in Procs : add_write_config(p)
    \/ \E p \in Procs : add_append(p)
    \/ \E p \in Procs : add_save_open(p)
    \/ \E p \in Procs : add_save_write(p)
    \/ \E p \in Procs : interval_check(p)
    \/ \E p \in Procs : interval_load_config(p)
    \/ \E p \in Procs : interval_write_config(p)
    \/ \E p \in Procs : interval_save_open(p)
    \/ \E p \in Procs : interval_save_write(p)

LoadSpec == LoadInit /\ [][LoadNext]_vars


(***************************************************************************)
(* change_backup_destination (lines 494-573).  The argument is a           *)
(* destination, or 0 for a string is_valid_mac_path rejects.               *)
(***************************************************************************)
\* the tree under destination d
Tree(d) == IF d = DefaultDest THEN dst ELSE dst2

\* lines 505-518: an invalid path is reported and the command returns; a new
\* path that is not a directory is created with os.makedirs
cd_check(p) ==
    /\ pc[p] = "c_check"
    /\ IF arg[p] = 0
       THEN /\ pc' = [pc EXCEPT ![p] = "rejected"]
            /\ status' = [status EXCEPT ![p] = "ok"]
            /\ dirs' = dirs
       ELSE /\ pc' = [pc EXCEPT ![p] = "c_config"]
            /\ status' = status
            /\ dirs' = dirs \cup {arg[p]}
    /\ UNCHANGED <<src, locked, dst, dst2, pasted, docVars, cycleVars, cmd, rpid, arg,
                   handlers, sigterm, histVars>>

\* line 521, first half
cd_load_config(p) ==
    /\ GetConfigRead(p, "c_config", "c_cfgwrite", "c_old")
    /\ UNCHANGED <<fsVars, checksumsFile, marker, todo, cur, digest, checksums,
                   loaded, attempted, copied, cmd, rpid, arg, handlers, sigterm, histVars>>

\* line 521, second half
cd_write_config(p) ==
    /\ GetConfigWrite(p, "c_cfgwrite", "c_old")
    /\ UNCHANGED <<fsVars, checksumsFile, marker, cycleVars, lifeVars, histVars>>

\* line 524: is_path_exist(old_backup_folder) = 'directory'
OldIsDirectory(p) == config[p].dest \in dirs

\* lines 522-527: an old destination that is not a directory is reported and the
\* command returns
cd_old(p) ==
    /\ pc[p] = "c_old"
    /\ IF OldIsDirectory(p)
       THEN /\ pc' = [pc EXCEPT ![p] = "c_move"]
            /\ status' = status
            /\ config' = config
       ELSE /\ pc' = [pc EXCEPT ![p] = "rejected"]
            /\ status' = [status EXCEPT ![p] = "ok"]
            /\ config' = [config EXCEPT ![p] = NoConfig]
    /\ UNCHANGED <<fsVars, docVars, todo, cur, digest, checksums, loaded, attempted,
                   copied, cmd, rpid, arg, handlers, sigterm, histVars>>

\* what the walk moves: every file of the tree
Movable(e) == e.kind \in {"file", "partial", "same"}

\* lines 539-545, shutil.move: what lies at the path of f under new after the
\* walk; a file moved onto a file replaces it, a file moved onto a directory
\* goes into the directory
MovedTo(old, new, f) ==
    IF Movable(Tree(old)[f]) /\ Tree(new)[f].kind # "dir" THEN Tree(old)[f] ELSE Tree(new)[f]

\* what lies at the path of f under old after the walk
MovedFrom(old, f) == IF Movable(Tree(old)[f]) THEN NoEntry ELSE Tree(old)[f]

\* lines 531-545: the walk over the old destination.  With new equal to old
\* every file is renamed onto itself and stays.
cd_move(p) ==
    /\ pc[p] = "c_move"
    /\ IF arg[p] = config[p].dest
       THEN UNCHANGED <<dst, dst2>>
       ELSE /\ dst' = [f \in Files |->
                         IF arg[p] = DefaultDest THEN MovedTo(config[p].dest, arg[p], f)
                         ELSE IF config[p].dest = DefaultDest THEN MovedFrom(config[p].dest, f)
                         ELSE dst[f]]
            /\ dst2' = [f \in Files |->
                          IF arg[p] = OtherDest THEN MovedTo(config[p].dest, arg[p], f)
                          ELSE IF config[p].dest = OtherDest THEN MovedFrom(config[p].dest, f)
                          ELSE dst2[f]]
    /\ pc' = [pc EXCEPT ![p] = "c_rmtree"]
    /\ UNCHANGED <<src, locked, dirs, pasted, docVars, cycleVars, lifeVars, histVars>>

\* a faulty removal: the directory stays
DirsKept(p) == dirs

\* the directories left by shutil.rmtree(old_backup_folder)
DirsAfterRmtree(p) == dirs \ {config[p].dest}

\* line 548: shutil.rmtree(old_backup_folder)
cd_rmtree(p) ==
    /\ pc[p] = "c_rmtree"
    /\ dst' = IF config[p].dest = DefaultDest THEN [f \in Files |-> NoEntry] ELSE dst
    /\ dst2' = IF config[p].dest = OtherDest THEN [f \in Files |-> NoEntry] ELSE dst2
    /\ dirs' = DirsAfterRmtree(p)
    /\ pc' = [pc EXCEPT ![p] = "c_clear"]
    /\ UNCHANGED <<src, locked, pasted, docVars, cycleVars, lifeVars, histVars>>

\* lines 553-563, first half: open(PATH_TO_CHECKSUMS_JSON, 'w') truncates the
\* document when it exists
cd_clear_open(p) ==
    /\ pc[p] = "c_clear"
    /\ IF checksumsFile.state = "absent"
       THEN /\ checksumsFile' = checksumsFile
            /\ pc' = [pc EXCEPT ![p] = "c_save"]
       ELSE /\ checksumsFile' = [state |-> "bad", map |-> EmptyMap]
            /\ pc' = [pc EXCEPT ![p] = "c_clearing"]
    /\ UNCHANGED <<fsVars, configFile, lastWriter, marker, cycleVars, lifeVars, histVars>>

\* line 556: json.dump({}, checksums_file)
cd_clear_write(p) ==
    /\ pc[p] = "c_clearing"
    /\ checksumsFile' = [state |-> "ok", map |-> EmptyMap]
    /\ pc' = [pc EXCEPT ![p] = "c_save"]
    /\ UNCHANGED <<fsVars, configFile, lastWriter, marker, cycleVars, lifeVars, histVars>>

\* lines 566-567, save_json_file line 123: open(path, 'w') truncates config.json
cd_save_open(p) ==
    /\ pc[p] = "c_save"
    /\ configFile' = TruncatedConfig
    /\ lastWriter' = p
    /\ pc' = [pc EXCEPT ![p] = "c_saving"]
    /\ UNCHANGED <<fsVars, checksumsFile, marker, cycleVars, lifeVars, histVars>>

\* line 566 and save_json_file lines 124-125: the configuration with the new
\* destination is written; lines 568-569: the command reports success and returns
cd_save_write(p) ==
    /\ pc[p] = "c_saving"
    /\ configFile' = ConfigDoc([config[p] EXCEPT !.dest = arg[p]])
    /\ lastWriter' = p
    /\ pc' = [pc EXCEPT ![p] = "done"]
    /\ status' = [status EXCEPT ![p] = "ok"]
    /\ config' = [config EXCEPT ![p] = NoConfig]
    /\ UNCHANGED <<fsVars, checksumsFile, marker, todo, cur, digest, checksums, loaded,
                   attempted, copied, cmd, rpid, arg, handlers, sigterm, histVars>>

(***************************************************************************)
(* MoveSpec: moving the backup.  Either destination holds any files or     *)
(* none or does not exist, config.json names one of them, checksums.json   *)
(* is absent or has an entry; the processes are invocations of             *)
(* change_destination, run one after the other.                            *)
(***************************************************************************)
\* the trees a destination can hold: at the path of each file nothing or a file
Trees == [Files -> {NoEntry} \cup {FileEntry(c) : c \in Contents}]

EmptyTree == [f \in Files |-> NoEntry]

MoveInit ==
    /\ src = [f \in Files |-> 1]
    /\ locked = {}
    /\ dst \in Trees
    /\ dst2 \in {EmptyTree, [f \in Files |-> FileEntry(1)]}
    /\ pasted = EmptyTree
    /\ dirs \in SUBSET Dests
    /\ dst # EmptyTree => DefaultDest \in dirs
    /\ dst2 # EmptyTree => OtherDest \in dirs
    /\ configFile \in {[state |-> "ok", interval |-> DefaultInterval, dest |-> d,
                        items |-> <<>>] : d \in Dests}
    /\ lastWriter = 0
    /\ checksumsFile \in {[state |-> "absent", map |-> EmptyMap],
                          [state |-> "ok", map |-> ChecksumPut(EmptyMap, 1, Md5(1))]}
    /\ marker = [exists |-> FALSE, pid |-> 0]
    /\ InitProcs
    /\ InitHistory

MoveNext ==
    \/ \E p \in Procs, d \in {0} \cup Dests :
          NoneAlive /\ Invoke(p, "change_destination", d)
    \/ \E p \in Procs : cd_check(p)
    \/ \E p \in Procs : cd_load_config(p)
    \/ \E p \in Procs : cd_write_config(p)
    \/ \E p \in Procs : cd_old(p)
    \/ \E p \in Procs : cd_move(p)
    \/ \E p \in Procs : cd_rmtree(p)
    \/ \E p \in Procs : cd_clear_open(p)
    \/ \E p \in Procs : cd_clear_write(p)
    \/ \E p \in Procs : cd_save_open(p)
    \/ \E p \in Procs : cd_save_write(p)

MoveSpec == MoveInit /\ [][MoveNext]_vars


(***************************************************************************)
(* paste_backup (lines 623-668).  The argument is the paste directory, or  *)
(* 0 for a string is_valid_mac_path rejects.                               *)
(***************************************************************************)
\* lines 633-641: an invalid target, or one that is not a directory, is reported
\* and the command returns
paste_check(p) ==
    /\ pc[p] = "p_check"
    /\ IF arg[p] = 0 \/ arg[p] \notin dirs
       THEN /\ pc' = [pc EXCEPT ![p] = "rejected"]
            /\ status' = [status EXCEPT ![p] = "ok"]
       ELSE /\ pc' = [pc EXCEPT ![p] = "p_config"]
            /\ status' = status
    /\ UNCHANGED <<fsVars, docVars, cycleVars, cmd, rpid, arg, handlers, sigterm, histVars>>

\* line 643, first half
paste_load_config(p) ==
    /\ GetConfigRead(p, "p_config", "p_cfgwrite", "p_backup")
    /\ UNCHANGED <<fsVars, checksumsFile, marker, todo, cur, digest, checksums,
                   loaded, attempted, copied, cmd, rpid, arg, handlers, sigterm, histVars>>

\* line 643, second half
paste_write_config(p) ==
    /\ GetConfigWrite(p, "p_cfgwrite", "p_backup")
    /\ UNCHANGED <<fsVars, checksumsFile, marker, cycleVars, lifeVars, histVars>>

\* lines 644-649: a backup folder that is not a directory is reported and the
\* command returns
paste_backup_folder(p) ==
    /\ pc[p] = "p_backup"
    /\ IF config[p].dest \in dirs
       THEN /\ pc' = [pc EXCEPT ![p] = "p_copy"]
            /\ status' = status
            /\ config' = config
       ELSE /\ pc' = [pc EXCEPT ![p] = "rejected"]
            /\ status' = [status EXCEPT ![p] = "ok"]
            /\ config' = [config EXCEPT ![p] = NoConfig]
    /\ UNCHANGED <<fsVars, docVars, todo, cur, digest, checksums, loaded, attempted,
                   copied, cmd, rpid, arg, handlers, sigterm, histVars>>

\* a faulty copy: the target keeps what it had
PastedNothing(d, f) == pasted[f]

\* lines 658-661, shutil.copy2: what lies at the path of f under the target
\* after the walk over destination d; a file copied onto a directory goes into
\* the directory
PastedFile(d, f) ==
    IF Tree(d)[f].kind = "file" /\ pasted[f].kind # "dir" THEN Tree(d)[f] ELSE pasted[f]

\* lines 651-665: the walk over the backup folder; the command reports success
\* and returns
paste_copy(p) ==
    /\ pc[p] = "p_copy"
    /\ pasted' = [f \in Files |-> PastedFile(config[p].dest, f)]
    /\ pc' = [pc EXCEPT ![p] = "done"]
    /\ status' = [status EXCEPT ![p] = "ok"]
    /\ config' = [config EXCEPT ![p] = NoConfig]
    /\ UNCHANGED <<src, locked, dst, dirs, dst2, docVars, todo, cur, digest, checksums,
                   loaded, attempted, copied, cmd, rpid, arg, handlers, sigterm, histVars>>

(***************************************************************************)
(* RestoreSpec: backup and paste.  The daemon runs its first cycle over    *)
(* the directory, with no checksum document; files exist or not and are    *)
(* readable or not, the mirror paths are free or taken by directories, the *)
(* paste directory exists or not and holds anything.  When the cycle is    *)
(* over and the daemon sleeps, paste is invoked.                           *)
(***************************************************************************)
RestoreInit ==
    /\ src \in [Files -> {0} \cup Contents]
    /\ locked \in SUBSET {f \in Files : src[f] # 0}
    /\ dst \in [Files -> {NoEntry, DirEntry}]
    /\ dst2 = EmptyTree
    /\ pasted \in [Files -> {NoEntry, DirEntry, FileEntry(1)}]
    /\ dirs \in SUBSET {DefaultDest, PasteDir}
    /\ dst # EmptyTree => DefaultDest \in dirs
    /\ pasted # EmptyTree => PasteDir \in dirs
    /\ configFile = [state |-> "ok", interval |-> DefaultInterval, dest |-> DefaultDest,
                     items |-> <<DataDir>>]
    /\ lastWriter = 0
    /\ checksumsFile = [state |-> "absent", map |-> EmptyMap]
    /\ InitRunning
    /\ InitHistory

\* the daemon has finished a cycle and sleeps
CycleOver == \E q \in Procs : pc[q] = "d_sleep"

RestoreNext ==
    \/ \E p \in Procs : daemon_load_config(p)
    \/ \E p \in Procs : daemon_write_config(p)
    \/ \E p \in Procs : daemon_list_files(p)
    \/ \E p \in Procs : get_checksums_json(p)
    \/ \E p \in Procs : daemon_next_file(p)
    \/ \E p \in Procs : daemon_compare(p)
    \/ \E p \in Procs : copy_file_begin(p)
    \/ \E p \in Procs : copy_file_end(p)
    \/ \E p \in Procs : save_checksums_open(p)
    \/ \E p \in Procs : save_checksums_write(p)
    \/ \E p \in Procs : daemon_sleep(p)
    \/ \E p \in Procs, d \in {0, PasteDir} : CycleOver /\ Invoke(p, "paste", d)
    \/ \E p \in Procs : paste_check(p)
    \/ \E p \in Procs : paste_load_config(p)
    \/ \E p \in Procs : paste_write_config(p)
    \/ \E p \in Procs : paste_backup_folder(p)
    \/ \E p \in Procs : paste_copy(p)

RestoreSpec == RestoreInit /\ [][RestoreNext]_vars


(***************************************************************************)
(* LiveSpec: the daemon that is never terminated.  The daemon of Spec      *)
(* cycles over the watched directory while the environment edits files     *)
(* and mirror paths between its cycles; no signal is sent and nothing is   *)
(* stopped.  The daemon's process is scheduled fairly: time.sleep returns  *)
(* and every statement of the loop of lines 289-308 is executed in turn.   *)
(***************************************************************************)
LiveNext ==
    \/ \E p \in Procs : DaemonStep(p)
    \/ Env

LiveSpec == Init /\ [][LiveNext]_vars /\ WF_vars(\E p \in Procs : DaemonStep(p))


(***************************************************************************)
(* remove_backup_item (lines 441-472).                                     *)
(***************************************************************************)
\* lines 450-459: the path is validated; an invalid or missing path is reported
\* and the command returns
remove_check(p) ==
    /\ pc[p] = "r_check"
    /\ IF is_valid_mac_path(arg[p]) /\ is_path_exist(arg[p]) # "not exists"
       THEN /\ pc' = [pc EXCEPT ![p] = "r_config"]
            /\ status' = status
       ELSE /\ pc' = [pc EXCEPT ![p] = "rejected"]
            /\ status' = [status EXCEPT ![p] = "ok"]
    /\ UNCHANGED <<fsVars, docVars, cycleVars, cmd, rpid, arg, handlers, sigterm, histVars>>

\* line 461, first half
remove_load_config(p) ==
    /\ GetConfigRead(p, "r_config", "r_cfgwrite", "r_remove")
    /\ UNCHANGED <<fsVars, checksumsFile, marker, todo, cur, digest, checksums,
                   loaded, attempted, copied, cmd, rpid, arg, handlers, sigterm, histVars>>

\* line 461, second half
remove_write_config(p) ==
    /\ GetConfigWrite(p, "r_cfgwrite", "r_remove")
    /\ UNCHANGED <<fsVars, checksumsFile, marker, cycleVars, lifeVars, histVars>>

\* a faulty removal: the list stays as it was
RemoveNothing(items, path) == items

\* line 465: items_to_backup.remove(absolute_path) takes the first occurrence out
RemoveFirst(items, path) ==
    LET i == CHOOSE k \in 1..Len(items) :
                 items[k] = path /\ \A j \in 1..(k - 1) : items[j] # path
    IN  SubSeq(items, 1, i - 1) \o SubSeq(items, i + 1, Len(items))

\* lines 462-466 and 470-472
remove_item(p) ==
    /\ pc[p] = "r_remove"
    /\ IF arg[p] \in SeqRange(config[p].items)
       THEN /\ pc' = [pc EXCEPT ![p] = "r_save"]
            /\ status' = status
            /\ config' = [config EXCEPT ![p].items = RemoveFirst(@, arg[p])]
       ELSE /\ pc' = [pc EXCEPT ![p] = "done"]
            /\ status' = [status EXCEPT ![p] = "ok"]
            /\ config' = [config EXCEPT ![p] = NoConfig]
    /\ UNCHANGED <<fsVars, docVars, todo, cur, digest, checksums, loaded, attempted,
                   copied, cmd, rpid, arg, handlers, sigterm, histVars>>

\* line 467, save_json_file line 123: open(path, 'w') truncates the document
remove_save_open(p) ==
    /\ pc[p] = "r_save"
    /\ configFile' = TruncatedConfig
    /\ lastWriter' = p
    /\ pc' = [pc EXCEPT ![p] = "r_saving"]
    /\ UNCHANGED <<fsVars, checksumsFile, marker, cycleVars, lifeVars, histVars>>

\* save_json_file lines 124-125 and lines 468-469: the document is written and the
\* command reports success ("removed") and returns
remove_save_write(p) ==
    /\ pc[p] = "r_saving"
    /\ configFile' = ConfigDoc(config[p])
    /\ lastWriter' = p
    /\ pc' = [pc EXCEPT ![p] = "removed"]
    /\ status' = [status EXCEPT ![p] = "ok"]
    /\ config' = [config EXCEPT ![p] = NoConfig]
    /\ UNCHANGED <<fsVars, checksumsFile, marker, todo, cur, digest, checksums, loaded,
                   attempted, copied, cmd, rpid, arg, handlers, sigterm, histVars>>


(***************************************************************************)
(* PathSpec: path resolution.  The daemon starts a cycle over any list of  *)
(* at most MaxItems configured paths (the directory, the files in it, a    *)
(* path at which nothing exists, in any order and with repetitions) and    *)
(* any set of existing files, and resolves the list.                       *)
(***************************************************************************)
PathArgs == {DataDir, MissingPath} \cup {FilePath(f) : f \in Files}

PathLists == UNION {[1..n -> PathArgs] : n \in 0..MaxItems}

PathInit ==
    /\ src \in [Files -> 0..1]
    /\ locked = {}
    /\ dst = [f \in Files |-> NoEntry]
    /\ NoStore
    /\ configFile \in {[state |-> "ok", interval |-> DefaultInterval, dest |-> DefaultDest,
                        items |-> l] : l \in PathLists}
    /\ lastWriter = 0
    /\ checksumsFile = [state |-> "absent", map |-> EmptyMap]
    /\ InitRunning
    /\ InitHistory

PathNext ==
    \/ \E p \in Procs : daemon_load_config(p)
    \/ \E p \in Procs : daemon_write_config(p)
    \/ \E p \in Procs : daemon_list_files(p)

PathSpec == PathInit /\ [][PathNext]_vars


(***************************************************************************)
(* RemoveSpec: add and remove.  config.json lists any paths without        *)
(* repetition, the listed files exist or have been deleted; the processes  *)
(* are invocations of add and remove, run one after the other.             *)
(***************************************************************************)
\* the lists add can have built
AddedLists == {l \in PathLists : \A i, j \in 1..Len(l) : l[i] = l[j] => i = j}

RemoveInit ==
    /\ src \in [Files -> 0..1]
    /\ locked = {}
    /\ dst = [f \in Files |-> NoEntry]
    /\ NoStore
    /\ configFile \in {[state |-> "ok", interval |-> DefaultInterval, dest |-> d,
                        items |-> l] : d \in Dests, l \in AddedLists}
    /\ lastWriter = 0
    /\ checksumsFile = [state |-> "absent", map |-> EmptyMap]
    /\ marker = [exists |-> FALSE, pid |-> 0]
    /\ InitProcs
    /\ InitHistory

RemoveNext ==
    \/ \E p \in Procs, a \in {DataDir, FilePath(1)} : NoneAlive /\ Invoke(p, "add", a)
    \/ \E p \in Procs, a \in {DataDir, FilePath(1), <<0, 1>>} :
          NoneAlive /\ Invoke(p, "remove", a)
    \/ \E p \in Procs : add_check(p)
    \/ \E p \in Procs : add_load_config(p)
    \/ \E p \in Procs : add_write_config(p)
    \/ \E p \in Procs : add_append(p)
    \/ \E p \in Procs : add_save_open(p)
    \/ \E p \in Procs : add_save_write(p)
    \/ \E p \in Procs : remove_check(p)
    \/ \E p \in Procs : remove_load_config(p)
    \/ \E p \in Procs : remove_write_config(p)
    \/ \E p \in Procs : remove_item(p)
    \/ \E p \in Procs : remove_save_open(p)
    \/ \E p \in Procs : remove_save_write(p)

RemoveSpec == RemoveInit /\ [][RemoveNext]_vars

(***************************************************************************)
(* clear_backup_folder (lines 576-620).                                    *)
(***************************************************************************)
\* line 580, first half
clear_load_config(p) ==
    /\ GetConfigRead(p, "k_config", "k_cfgwrite", "k_folder")
    /\ UNCHANGED <<fsVars, checksumsFile, marker, todo, cur, digest, checksums,
                   loaded, attempted, copied, cmd, rpid, arg, handlers, sigterm, histVars>>

\* line 580, second half
clear_write_config(p) ==
    /\ GetConfigWrite(p, "k_cfgwrite", "k_folder")
    /\ UNCHANGED <<fsVars, checksumsFile, marker, cycleVars, lifeVars, histVars>>

\* lines 583-586: a destination that is not a directory is reported and the
\* command returns
clear_folder(p) ==
    /\ pc[p] = "k_folder"
    /\ IF config[p].dest \in dirs
       THEN /\ pc' = [pc EXCEPT ![p] = "k_walk"]
            /\ status' = status
            /\ config' = config
       ELSE /\ pc' = [pc EXCEPT ![p] = "rejected"]
            /\ status' = [status EXCEPT ![p] = "ok"]
            /\ config' = [config EXCEPT ![p] = NoConfig]
    /\ UNCHANGED <<fsVars, docVars, todo, cur, digest, checksums, loaded, attempted,
                   copied, cmd, rpid, arg, handlers, sigterm, histVars>>

\* a faulty walk: nothing is removed
WalkRemovesNothing(t) == t

\* lines 590-600: what the walk leaves of the tree t under the destination:
\* os.remove for every file and shutil.rmtree for every directory of the top
\* level, so that nothing below the destination is left
WalkRemoves(t) == [f \in Files |-> NoEntry]

\* lines 588-604: the walk over the destination; an os.walk over a directory
\* that has disappeared yields nothing; the destination itself is not removed
clear_walk(p) ==
    /\ pc[p] = "k_walk"
    /\ dst' = IF config[p].dest = DefaultDest /\ DefaultDest \in dirs
              THEN WalkRemoves(dst) ELSE dst
    /\ dst2' = IF config[p].dest = OtherDest /\ OtherDest \in dirs
               THEN WalkRemoves(dst2) ELSE dst2
    /\ pc' = [pc EXCEPT ![p] = "k_sums"]
    /\ UNCHANGED <<src, locked, dirs, pasted, docVars, cycleVars, lifeVars, histVars>>

\* lines 606-608 and 614-616: open(PATH_TO_CHECKSUMS_JSON, 'w') truncates the
\* document when it exists; a missing document is reported and stays missing
clear_sums_open(p) ==
    /\ pc[p] = "k_sums"
    /\ IF checksumsFile.state = "absent"
       THEN /\ checksumsFile' = checksumsFile
            /\ pc' = [pc EXCEPT ![p] = "cleared"]
            /\ status' = [status EXCEPT ![p] = "ok"]
            /\ config' = [config EXCEPT ![p] = NoConfig]
       ELSE /\ checksumsFile' = [state |-> "bad", map |-> EmptyMap]
            /\ pc' = [pc EXCEPT ![p] = "k_clearing"]
            /\ status' = status
            /\ config' = config
    /\ UNCHANGED <<fsVars, configFile, lastWriter, marker, todo, cur, digest, checksums,
                   loaded, attempted, copied, cmd, rpid, arg, handlers, sigterm, histVars>>

\* lines 609-611: json.dump({}, checksums_file), and the command returns
clear_sums_write(p) ==
    /\ pc[p] = "k_clearing"
    /\ checksumsFile' = [state |-> "ok", map |-> EmptyMap]
    /\ pc' = [pc EXCEPT ![p] = "cleared"]
    /\ status' = [status EXCEPT ![p] = "ok"]
    /\ config' = [config EXCEPT ![p] = NoConfig]
    /\ UNCHANGED <<fsVars, configFile, lastWriter, marker, todo, cur, digest, checksums,
                   loaded, attempted, copied, cmd, rpid, arg, handlers, sigterm, histVars>>

(***************************************************************************)
(* ClearSpec: clearing the backup.  The daemon runs its first cycle over   *)
(* the directory: files exist or not and are readable or not, the mirror   *)
(* paths are free or taken by directories, the destination exists or not.  *)
(* While the daemon sleeps, clear_destination is invoked and runs to its   *)
(* end; then the daemon runs its next cycle.                               *)
(***************************************************************************)
ClearInit ==
    /\ src \in [Files -> {0} \cup Contents]
    /\ locked \in SUBSET {f \in Files : src[f] # 0}
    /\ dst \in [Files -> {NoEntry, DirEntry}]
    /\ dst2 = EmptyTree
    /\ pasted = EmptyTree
    /\ dirs \in SUBSET {DefaultDest}
    /\ dst # EmptyTree => DefaultDest \in dirs
    /\ configFile = [state |-> "ok", interval |-> DefaultInterval, dest |-> DefaultDest,
                     items |-> <<DataDir>>]
    /\ lastWriter = 0
    /\ checksumsFile = [state |-> "absent", map |-> EmptyMap]
    /\ InitRunning
    /\ InitHistory

\* clear_destination has been run and has returned
ClearOver == \E q \in Procs : cmd[q] = "clear_destination" /\ pc[q] \in NotRunning

\* clear_destination has not been invoked
NotCleared == \A q \in Procs : cmd[q] # "clear_destination"

ClearNext ==
    \/ \E p \in Procs : daemon_load_config(p)
    \/ \E p \in Procs : daemon_write_config(p)
    \/ \E p \in Procs : daemon_list_files(p)
    \/ \E p \in Procs : get_checksums_json(p)
    \/ \E p \in Procs : daemon_next_file(p)
    \/ \E p \in Procs : daemon_compare(p)
    \/ \E p \in Procs : copy_file_begin(p)
    \/ \E p \in Procs : copy_file_end(p)
    \/ \E p \in Procs : save_checksums_open(p)
    \/ \E p \in Procs : save_checksums_write(p)
    \/ \E p \in Procs : daemon_sleep(p)
    \/ \E p \in Procs : ClearOver /\ age = 1 /\ daemon_wake(p)
    \/ \E p \in Procs :
          CycleOver /\ NotCleared /\ Invoke(p, "clear_destination", <<>>)
    \/ \E p \in Procs : clear_load_config(p)
    \/ \E p \in Procs : clear_write_config(p)
    \/ \E p \in Procs : clear_folder(p)
    \/ \E p \in Procs : clear_walk(p)
    \/ \E p \in Procs : clear_sums_open(p)
    \/ \E p \in Procs : clear_sums_write(p)

ClearSpec == ClearInit /\ [][ClearNext]_vars

(***************************************************************************)
(* RaceSpec: the daemon and the commands that empty the backup.  The       *)
(* daemon runs cycle after cycle over readable files and free mirror       *)
(* paths; clear_destination and change_destination are invoked at any      *)
(* time, each at most once.  Nothing else touches the filesystem.          *)
(***************************************************************************)
\* command c has not been invoked
NotInvoked(c) == \A q \in Procs : cmd[q] # c

RaceNext ==
    \/ \E p \in Procs : DaemonStep(p)
    \/ \E p \in Procs : daemon_atexit(p)
    \/ \E p \in Procs :
          NotInvoked("clear_destination") /\ Invoke(p, "clear_destination", <<>>)
    \/ \E p \in Procs : clear_load_config(p)
    \/ \E p \in Procs : clear_write_config(p)
    \/ \E p \in Procs : clear_folder(p)
    \/ \E p \in Procs : clear_walk(p)
    \/ \E p \in Procs : clear_sums_open(p)
    \/ \E p \in Procs : clear_sums_write(p)
    \/ \E p \in Procs, d \in Dests :
          NotInvoked("change_destination") /\ Invoke(p, "change_destination", d)
    \/ \E p \in Procs : cd_check(p)
    \/ \E p \in Procs : cd_load_config(p)
    \/ \E p \in Procs : cd_write_config(p)
    \/ \E p \in Procs : cd_old(p)
    \/ \E p \in Procs : cd_move(p)
    \/ \E p \in Procs : cd_rmtree(p)
    \/ \E p \in Procs : cd_clear_open(p)
    \/ \E p \in Procs : cd_clear_write(p)
    \/ \E p \in Procs : cd_save_open(p)
    \/ \E p \in Procs : cd_save_write(p)

RaceSpec == Init /\ [][RaceNext]_vars


(***************************************************************************)
(* The backup engine's claims (checked under Spec).                        *)
(***************************************************************************)
\* the persisted checksum entry of file f
Persisted(f) == ChecksumGet(checksumsFile.map, f)

\* the mirror path of f holds the content of f
HoldsContent(f) == dst[f] = FileEntry(src[f]) \/ dst[f].kind = "same"

\* positions of a cycle after the checksum document has been loaded
AfterLoad == InCycle \cup {"d_saving", "d_saved"}

SkippedUnchanged(p, f) ==
    /\ pc[p] = "d_loop"
    /\ cur[p] = f
    /\ digest[p] # NoDigest
    /\ f \notin attempted[p]

\* C2 as stated: a file whose hashing or copying failed in an earlier cycle, whose
\* source content is still the same and which has not been mirrored since, is
\* treated as changed by every later cycle that hashes it (its copy is tried again).
C2_FailedFileRetried ==
    \A p \in Procs, f \in Files :
        SkippedUnchanged(p, f) => ~(history[f] = "failed" /\ ~HoldsContent(f))

\* C3: a file whose fresh digest equals its stored entry is not copied and its entry
\* stays as it was, in memory and in the document the cycle saves; and the second of
\* two complete cycles with no change of the sources or the backup tree in between
\* calls copy_file for no file and saves the document the first one wrote.
C3_UnchangedNotCopied ==
    \A p \in Procs :
        /\ \A f \in Files :
              ( /\ pc[p] \in AfterLoad
                /\ src[f] # 0
                /\ f \notin locked
                /\ Md5(src[f]) = ChecksumGet(loaded[p], f) )
              => /\ f \notin attempted[p]
                 /\ ChecksumGet(checksums[p], f) = ChecksumGet(loaded[p], f)
                 /\ pc[p] = "d_saved" => Persisted(f) = ChecksumGet(loaded[p], f)
        /\ (pc[p] = "d_saved" /\ age = 2)
              => /\ attempted[p] = {}
                 /\ checksumsFile.map = loaded[p]

\* C3's case: the second quiet cycle has completed over a document with entries
C3_Witness ==
    \E p \in Procs :
        /\ pc[p] = "d_saved"
        /\ age = 2
        /\ DOMAIN checksumsFile.map = Files

\* C4, first half: at every point of a cycle between the load of the checksum
\* document and its save, the persisted document is the one the cycle loaded
C4_DocumentUntouched ==
    \A p \in Procs : pc[p] \in InCycle =>
        checksumsFile = [state |-> "ok", map |-> loaded[p]]

DaemonLoop == InCycle \cup {"d_config", "d_cfgwrite", "d_list", "d_load",
                            "d_saving", "d_saved", "d_sleep"}

\* positions inside stop_daemon after the marker was found to exist
InStop == {"t_read", "t_kill", "t_remove"}

\* C5: start_daemon, when the marker exists and holds a non-empty value at the read
\* of lines 318-320, refuses to start: the invocation ends with a nonzero status
\* without forking a daemon, and the marker and its content stay as they were.
C5_StartRefused ==
    [][\A p \in Procs :
          ( /\ pc[p] = "s_read"
            /\ pc'[p] \notin {"s_read", "killed"}
            /\ marker.exists
            /\ marker.pid # 0 )
          => /\ pc'[p] \in {"refused", "aborted"}
             /\ status'[p] = "fail"
             /\ marker' = marker]_vars

\* C5's case: a start was refused while the daemon the marker records is running
C5_Witness ==
    \E p \in Procs :
        /\ cmd[p] = "start"
        /\ pc[p] = "refused"
        /\ status[p] = "fail"
        /\ marker.exists
        /\ marker.pid # p
        /\ marker.pid \in Procs
        /\ IsDaemon(marker.pid)

\* C6: the guard is not atomic.  A start_daemon that has passed the check of lines
\* 317-323 does not look at the marker again: at line 360 it writes its own pid
\* into the marker whatever another start has written there since the check, and
\* goes on to its main loop.
C6_StartDoesNotRecheck ==
    [][\A p \in Procs :
          (pc[p] = "s_write" /\ pc'[p] \notin {"s_write", "killed"})
          => /\ pc'[p] = "s_register"
             /\ marker.exists => marker' = [exists |-> TRUE, pid |-> p]]_vars

\* C6's case: two start invocations have both passed the check and both daemons
\* are in their main loops at the same time, neither with a signal pending
C6_Witness ==
    \E p, q \in Procs :
        /\ p # q
        /\ cmd[p] = "start" /\ cmd[q] = "start"
        /\ pc[p] \in DaemonLoop /\ pc[q] \in DaemonLoop
        /\ {p, q} \subseteq handlers
        /\ sigterm = {}

\* stop_daemon of process p ends with this step, having found the marker to exist
StopEnds(p) ==
    /\ cmd[p] \in {"stop", "restart"}
    /\ pc[p] \in InStop
    /\ pc'[p] \notin InStop \cup {"killed"}

\* stop_daemon of process p finds no marker at line 374
StopFindsNothing(p) ==
    /\ pc[p] = "t_exists"
    /\ ~marker.exists
    /\ pc'[p] \notin {"t_exists", "killed"}

\* C7 as stated: stop_daemon, whenever the marker exists (whatever it contains and
\* whether or not the signal can be delivered), ends with the marker removed; when
\* the marker is absent it sends no signal and changes nothing.
C7_StopRemovesMarker ==
    [][\A p \in Procs :
          /\ StopEnds(p) => ~marker'.exists
          /\ StopFindsNothing(p) => (sigterm' = sigterm /\ marker' = marker)]_vars

\* C7 as amended: stop_daemon, whenever the marker exists and holds a process id
\* (whether or not the signal can be delivered to it), ends with the marker
\* removed; when the marker exists and is empty, stop_daemon fails at line 376
\* (int('') raises ValueError), sends no signal and leaves the marker in place; when
\* the marker is absent it sends no signal and changes nothing.
C7_StopRemovesPidMarker ==
    [][\A p \in Procs :
          /\ StopEnds(p) =>
                \/ ~marker'.exists
                \/ /\ pc[p] = "t_read"
                   /\ marker = [exists |-> TRUE, pid |-> 0]
                   /\ marker' = marker
                   /\ sigterm' = sigterm
          /\ StopFindsNothing(p) => (sigterm' = sigterm /\ marker' = marker)]_vars

\* C7's case: a stop has returned after it read the pid of a daemon that had been
\* killed before (the signal could not be delivered), and the marker is removed
C7_Witness ==
    \E p \in Procs :
        /\ cmd[p] = "stop"
        /\ pc[p] = "done"
        /\ status[p] = "ok"
        /\ rpid[p] # 0
        /\ pc[rpid[p]] = "killed"
        /\ rpid[p] \notin sigterm
        /\ ~marker.exists

\* daemon p, which has written its pid into the marker, ceases to run in this step
DaemonCeases(p) ==
    /\ pc[p] \in DaemonLoop \cup {"s_register", "exiting"}
    /\ pc'[p] \in NotRunning

\* C8 as stated: once a daemon has written its pid into the marker, every way it
\* can cease to run (terminate signal, fatal unparseable document, uncaught error,
\* abrupt kill) leaves the marker removed.
C8_EveryExitRemovesMarker ==
    [][\A p \in Procs : DaemonCeases(p) => ~marker'.exists]_vars

\* C8 as amended: once a daemon has registered its cleanup and its SIGTERM handler
\* (lines 362-363), every way it can cease to run other than an abrupt kill (a
\* handled terminate signal, a fatal unparseable config or checksum document, an
\* uncaught error) leaves the marker removed; an abrupt kill, and a terminate
\* signal that arrives before the handler is installed, end the daemon with the
\* marker left as it is.
C8_InterpreterExitRemovesMarker ==
    [][\A p \in Procs : DaemonCeases(p) =>
          IF pc'[p] = "killed"
          THEN marker' = marker
          ELSE p \in handlers /\ ~marker'.exists]_vars

\* C8's case: a daemon that got as far as loading the two documents has ended
\* otherwise than by a kill, and no marker is left
C8_Witness ==
    \E p \in Procs :
        /\ cmd[p] = "start"
        /\ pc[p] = "done"
        /\ status[p] = "ok"
        /\ checksumsFile.state # "absent"
        /\ ~marker.exists

\* a restart invocation that failed or was killed after its stop_daemon had
\* finished and before its start_daemon had forked
RestartAborted(p) == cmd[p] = "restart" /\ pc[p] = "aborted"

\* nothing is in progress: no invocation is on its way, no signal is pending, no
\* daemon is on its way out
Settled ==
    /\ sigterm = {}
    /\ \A q \in Procs : pc[q] \in NotRunning \cup DaemonLoop

\* C9 as stated: if a restart fails or is killed between its stop_daemon and its
\* start_daemon, the system ends with no daemon running and no marker.
C9_AbortedRestartLeavesNothing ==
    \A p \in Procs : (RestartAborted(p) /\ Settled) =>
        /\ \A q \in Procs : ~IsDaemon(q)
        /\ ~marker.exists

\* C9 as amended: restart performs stop_daemon and then start_daemon as two
\* separate steps; if the invocation fails or is killed after stop_daemon has
\* finished and before start_daemon has created a daemon, the daemon whose pid
\* stop_daemon read from the marker has been sent the terminate signal (it has
\* ended, is on its way out, or has the signal pending), the marker does not
\* record it any more, and the invocation has created no daemon.
C9_AbortedRestartStopsRecordedDaemon ==
    \A p \in Procs : RestartAborted(p) =>
        /\ ~IsDaemon(p)
        /\ rpid[p] # 0 =>
              /\ \/ ~Alive(rpid[p])
                 \/ pc[rpid[p]] = "exiting"
                 \/ rpid[p] \in sigterm
              /\ marker.pid # rpid[p]

\* C9's case: a restart stopped the running daemon and was killed before it started
\* a new one; the daemon has ended and nothing is left
C9_Witness ==
    \E p \in Procs :
        /\ RestartAborted(p)
        /\ rpid[p] # 0
        /\ cmd[rpid[p]] = "start"
        /\ pc[rpid[p]] = "done"
        /\ Settled
        /\ \A q \in Procs : ~IsDaemon(q)
        /\ ~marker.exists

(***************************************************************************)
(* The config document's claim (checked under ConfigSpec).                 *)
(***************************************************************************)
\* add of process p has reported success and its path is missing from config.json
LostAdd(p) ==
    /\ cmd[p] = "add"
    /\ pc[p] = "added"
    /\ configFile.state = "ok"
    /\ arg[p] \notin SeqRange(configFile.items)

\* C10: a lost update of the config document is reachable (C10_Witness), and it has
\* one cause: whenever an add has reported success and its path is absent from the
\* persisted document, another process wrote the document after it (the last
\* writer wins).
C10_LastWriterWins ==
    \A p \in Procs : LostAdd(p) => lastWriter \notin {0, p}

\* C10's case: an add has reported success, the daemon's config load (which read
\* the document before the add saved it) wrote it back last, and the added path is
\* absent from the persisted document
C10_Witness ==
    \E p \in Procs :
        /\ LostAdd(p)
        /\ lastWriter # p
        /\ lastWriter \in Procs
        /\ cmd[lastWriter] = "start"
        /\ IsDaemon(lastWriter)

\* no path occurs twice in the list
NoDuplicates(items) == \A i, j \in 1..Len(items) : items[i] = items[j] => i = j

\* the path add was invoked with passes the checks of lines 414-423
Addable(path) == is_valid_mac_path(path) /\ is_path_exist(path) # "not exists"

\* C11: add_backup_item is idempotent on an existing path and rejects a missing one.
\* No path ever occurs twice in the persisted items_to_backup; an add that finds its
\* path in the list it loaded returns without changing the document; an add whose
\* path is invalid or does not exist reports an error and returns without having
\* read or written the document.
C11_AddIdempotentRejectsMissing ==
    [][/\ NoDuplicates(configFile'.items)
       /\ \A p \in Procs :
            /\ (pc[p] = "a_append" /\ pc'[p] # pc[p] /\ AlreadyListed(p))
                  => (pc'[p] = "done" /\ configFile' = configFile)
            /\ (pc[p] = "a_check" /\ pc'[p] # pc[p] /\ ~Addable(arg[p]))
                  => (pc'[p] = "rejected" /\ configFile' = configFile)
            /\ (cmd[p] = "add" /\ ~Addable(arg[p])) => lastWriter' # p]_vars

\* C11's case: one add of a path has reported success, a second add of the same
\* path has found it listed and returned, an add of a missing path has been
\* rejected, and the path is listed once
C11_Witness ==
    \E p, q, r \in Procs :
        /\ cmd[p] = "add" /\ pc[p] = "added"
        /\ cmd[q] = "add" /\ pc[q] = "done" /\ arg[q] = arg[p]
        /\ cmd[r] = "add" /\ pc[r] = "rejected" /\ arg[r] = MissingPath
        /\ configFile.state = "ok"
        /\ Cardinality({i \in 1..Len(configFile.items) : configFile.items[i] = arg[p]}) = 1


(***************************************************************************)
(* Hash failures (checked under Spec).                                     *)
(***************************************************************************)
\* the files of the cycle of process p: line 291
Resolved(p) == {FileOf(q) : q \in get_filtered_files_list(config[p].items)}

\* process p is inside the loop of lines 294-304 or past it
InBatch(p) == pc[p] \in InCycle \cup {"d_save", "d_saving", "d_saved"}

\* C19: a file whose digest cannot be computed is skipped.  While a cycle runs, a
\* file of the batch that calculate_checksum fails on is never handed to
\* copy_file and its entry in the cycle's mapping is the one that was loaded; when
\* the cycle has saved, every file of the batch has been taken from the batch,
\* every file that could be hashed has its digest recorded, and the persisted
\* checksum document is the cycle's mapping.
C19_HashFailureSkipsFile ==
    \A p \in Procs :
        /\ InBatch(p) =>
              \A f \in Resolved(p) :
                  calculate_checksum(f) = NoDigest =>
                      /\ f \notin attempted[p]
                      /\ f \notin copied[p]
                      /\ ChecksumGet(checksums[p], f) = ChecksumGet(loaded[p], f)
        /\ pc[p] = "d_saved" =>
              /\ todo[p] = {}
              /\ checksumsFile = SavedChecksums(p)
              /\ \A g \in Resolved(p) :
                    calculate_checksum(g) # NoDigest =>
                        ChecksumGet(checksums[p], g) = calculate_checksum(g)

\* C19's case: a cycle has saved; one file of its batch could not be hashed,
\* was not copied and has no entry, another file of the batch was copied
C19_Witness ==
    \E p \in Procs : \E f, g \in Resolved(p) :
        /\ pc[p] = "d_saved"
        /\ calculate_checksum(f) = NoDigest
        /\ f \notin DOMAIN checksumsFile.map
        /\ g \in copied[p]
        /\ HoldsContent(g)


(***************************************************************************)
(* Path resolution (checked under PathSpec).                               *)
(***************************************************************************)
\* path a is an ancestor of path b: b continues a by at least one component
StrictAncestor(a, b) == Len(a) < Len(b) /\ \A i \in 1..Len(a) : a[i] = b[i]

\* the list without every occurrence of path b
Without(items, b) == SelectSeq(items, LAMBDA x : x # b)

\* process p has resolved its list (line 291 has returned)
HasResolved(p) == pc[p] = "d_load"

\* C15: a path nested under another listed path is redundant.  When the daemon
\* has resolved its list, the batch is what the list without any path that has
\* an ancestor in the list resolves to, it is what every reordering of the list
\* resolves to, and it holds exactly the existing files that are listed or lie
\* under the listed directory.
C15_NestedPathRedundant ==
    \A p \in Procs :
        HasResolved(p) =>
            LET items == config[p].items
            IN  /\ \A a, b \in SeqRange(items) :
                      StrictAncestor(a, b) =>
                          todo[p] = {FileOf(q) : q \in get_filtered_files_list(Without(items, b))}
                /\ \A other \in PathLists :
                      SeqRange(other) = SeqRange(items) =>
                          todo[p] = {FileOf(q) : q \in get_filtered_files_list(other)}
                /\ \A f \in Files :
                      f \in todo[p] <=>
                          /\ src[f] # 0
                          /\ FilePath(f) \in SeqRange(items) \/ DataDir \in SeqRange(items)

\* C15's case: a file is listed and, after it, the directory it lies in; the
\* batch holds every file of the directory
C15_Witness ==
    \E p \in Procs :
        /\ HasResolved(p)
        /\ \E i, j \in 1..Len(config[p].items) :
              /\ j < i
              /\ config[p].items[i] = DataDir
              /\ config[p].items[j] = FilePath(1)
        /\ \A f \in Files : src[f] # 0
        /\ todo[p] = Files

\* C20: redundancy elimination works on whole path components.  When the daemon
\* has resolved its list, an existing listed path is dropped before expansion
\* exactly when another existing listed path is an ancestor of it; two existing
\* listed paths without a listed ancestor, one of which is a prefix of the other
\* as a string only, are both kept and both are in the batch.
C20_DropsOnlyUnderAncestor ==
    \A p \in Procs :
        HasResolved(p) =>
            LET E == existing_paths_set(config[p].items)
                K == pre_filtered_paths(config[p].items)
            IN  /\ \A q \in E : q \notin K <=> \E a \in E : StrictAncestor(a, q)
                /\ \A q, r \in E :
                      (/\ q # r
                       /\ TextPrefix(Text(r), Text(q))
                       /\ ~StrictAncestor(r, q)
                       /\ ~\E a \in E : StrictAncestor(a, q) \/ StrictAncestor(a, r))
                      => /\ q \in K /\ r \in K
                         /\ FileOf(q) \in todo[p] /\ FileOf(r) \in todo[p]

\* C20's case: two files are listed whose names share a prefix, the directory
\* is not listed, and both files are in the batch
C20_Witness ==
    \E p \in Procs :
        /\ HasResolved(p)
        /\ existing_paths_set(config[p].items) = {FilePath(1), FilePath(2)}
        /\ TextPrefix(Text(FilePath(1)), Text(FilePath(2)))
        /\ todo[p] = {1, 2}


(***************************************************************************)
(* Loading the config document (checked under LoadSpec).                   *)
(***************************************************************************)
\* where a process calls get_config_file, and where it writes the document back
LoadPcs == {"d_config", "a_config", "l_config", "i_config"}
WriteBackPcs == {"d_cfgwrite", "a_cfgwrite", "l_cfgwrite", "i_cfgwrite"}

\* json.load succeeds on the document
Parseable(doc) == doc.state \in {"ok", "notobject"}

\* the fields satisfy the tests of lines 73, 77 and 82-83
ValidFields(c) ==
    /\ c.interval >= 0
    /\ c.dest # 0
    /\ \A i \in 1..Len(c.items) : is_valid_mac_path(c.items[i])

\* every valid field of doc has its value in c, every other its default
Healed(doc, c) ==
    /\ c.interval = IF doc.state = "ok" /\ doc.interval >= 0 THEN doc.interval ELSE DefaultInterval
    /\ c.dest = IF doc.state = "ok" /\ doc.dest # 0 THEN doc.dest ELSE DefaultDest
    /\ c.items = IF doc.state = "ok" /\ \A i \in 1..Len(doc.items) : is_valid_mac_path(doc.items[i])
                 THEN doc.items ELSE <<>>

\* C16: every load of a parseable document heals it.  A process that calls
\* get_config_file on a parseable document goes on to write back a configuration
\* with valid fields, in which every field that was valid keeps its value and
\* every other field has its default; the write-back persists exactly that
\* configuration before the call returns; and every parseable document a load or
\* a command writes has valid fields.
C16_LoadHealsDocument ==
    [][\A p \in Procs :
          /\ (pc[p] \in LoadPcs /\ pc'[p] # pc[p] /\ Parseable(configFile))
                => /\ pc'[p] \in WriteBackPcs
                   /\ ValidFields(config'[p])
                   /\ Healed(configFile, config'[p])
          /\ (pc[p] \in WriteBackPcs /\ pc'[p] # pc[p])
                => /\ configFile' = ConfigDoc(config[p])
                   /\ config'[p] = config[p]
          /\ (configFile' # configFile /\ configFile'.state = "ok")
                => ValidFields(configFile')]_vars

\* the same for the documents that parse to an object
C16_LoadHealsObject ==
    [][\A p \in Procs :
          /\ (pc[p] \in LoadPcs /\ pc'[p] # pc[p] /\ configFile.state = "ok")
                => /\ pc'[p] \in WriteBackPcs
                   /\ ValidFields(config'[p])
                   /\ Healed(configFile, config'[p])
          /\ (pc[p] \in WriteBackPcs /\ pc'[p] # pc[p])
                => /\ configFile' = ConfigDoc(config[p])
                   /\ config'[p] = config[p]
          /\ (configFile' # configFile /\ configFile'.state = "ok")
                => ValidFields(configFile')]_vars


(***************************************************************************)
(* Moving the backup (checked under MoveSpec).                             *)
(***************************************************************************)
\* process p is inside change_backup_destination and has not passed the test of
\* the old destination
BeforeWalk == {"c_check", "c_config", "c_cfgwrite", "c_old"}

\* the pcs after the walk
AfterWalk == {"c_rmtree", "c_clear", "c_clearing", "c_save", "c_saving"}

\* the tree under destination d after the step
TreeNext(d) == IF d = DefaultDest THEN dst' ELSE dst2'

\* C12: what change_backup_destination leaves when it completes.  At the step at
\* which the command reports success the checksum document holds no entry (it is
\* the empty mapping, or it was absent and still is), the old destination is not a
\* directory any more, and config.json names the new destination.
C12_DestinationChanged ==
    [][\A p \in Procs :
          (pc[p] = "c_saving" /\ pc'[p] = "done")
              => /\ checksumsFile'.state \in {"ok", "absent"}
                 /\ checksumsFile'.map = EmptyMap
                 /\ config[p].dest \notin dirs'
                 /\ configFile'.state = "ok"
                 /\ configFile'.dest = arg[p]]_vars

\* C12's case: a change from one destination to the other has completed, the
\* checksum document existed and is now the empty mapping
C12_Witness ==
    \E p \in Procs :
        /\ cmd[p] = "change_destination" /\ pc[p] = "done" /\ status[p] = "ok"
        /\ arg[p] = OtherDest
        /\ lastWriter = p
        /\ configFile.dest = OtherDest
        /\ DefaultDest \notin dirs
        /\ checksumsFile = [state |-> "ok", map |-> EmptyMap]
        /\ \E f \in Files : dst2[f].kind = "file"

\* C13: change_backup_destination has no side effect when the old destination is
\* not a directory.  While config.json names a destination that is not a
\* directory, no step of the command up to the test of the old destination
\* creates or removes a directory, changes a tree, the checksum document or the
\* configured destination, and the test ends the command.
C13_NoSideEffectWithoutOld ==
    [][\A p \in Procs :
          (/\ cmd[p] = "change_destination"
           /\ pc[p] \in BeforeWalk
           /\ configFile.state = "ok"
           /\ configFile.dest \notin dirs)
              => /\ dirs' = dirs
                 /\ dst' = dst /\ dst2' = dst2
                 /\ checksumsFile' = checksumsFile
                 /\ configFile'.dest = configFile.dest
                 /\ pc[p] = "c_old" => pc'[p] = "rejected"]_vars

\* C18: the move keeps every file.  The walk puts every file of the old tree at
\* the same relative path of the new tree, and no later step of the command takes
\* a file out of the new tree.
C18_MoveKeepsEveryFile ==
    [][\A p \in Procs :
          /\ pc[p] = "c_move" =>
                \A f \in Files :
                    Tree(config[p].dest)[f].kind = "file"
                        => TreeNext(arg[p])[f] = Tree(config[p].dest)[f]
          /\ pc[p] \in AfterWalk =>
                \A f \in Files :
                    Tree(arg[p])[f].kind = "file" => TreeNext(arg[p])[f] = Tree(arg[p])[f]]_vars

\* the same for a new destination that is not the old one
C18_MoveToOtherKeepsEveryFile ==
    [][\A p \in Procs :
          /\ (pc[p] = "c_move" /\ arg[p] # config[p].dest) =>
                \A f \in Files :
                    Tree(config[p].dest)[f].kind = "file"
                        => TreeNext(arg[p])[f] = Tree(config[p].dest)[f]
          /\ (pc[p] \in AfterWalk /\ arg[p] # config[p].dest) =>
                \A f \in Files :
                    Tree(arg[p])[f].kind = "file" => TreeNext(arg[p])[f] = Tree(arg[p])[f]]_vars


(***************************************************************************)
(* The round trip (checked under RestoreSpec).                             *)
(***************************************************************************)
\* process p is a paste that has walked the backup folder and reported success
Pasted(p) == cmd[p] = "paste" /\ pc[p] = "done" /\ status[p] = "ok"

\* the files of the source set: the existing files under the watched directory
SourceSet == {FileOf(q) : q \in get_filtered_files_list(configFile.items)}

\* C14 as stated: after the first cycle and a paste, every file of the source set
\* lies under the paste directory with the content of the source.
C14_PasteReproducesSourceSet ==
    \A p \in Procs :
        Pasted(p) => \A f \in SourceSet : pasted[f] = FileEntry(src[f])

\* C14: the round trip for the files that were backed up.  After the first cycle
\* and a paste that reported success, every file of the source set that the cycle
\* copied lies under the paste directory with the content of the source, unless
\* a directory lies at its path there.
C14_PasteReproducesCopiedFiles ==
    \A p \in Procs :
        Pasted(p) =>
            \A f \in SourceSet :
                (history[f] = "mirrored" /\ pasted[f].kind # "dir")
                    => pasted[f] = FileEntry(src[f])

\* C14's case: the cycle has copied a file, the paste has put it over an older
\* file of the paste directory, and another file of the source set that could not
\* be backed up is missing there
C14_Witness ==
    \E p \in Procs : \E f, g \in SourceSet :
        /\ Pasted(p)
        /\ history[f] = "mirrored"
        /\ src[f] = 2
        /\ pasted[f] = FileEntry(2)
        /\ history[g] = "failed"
        /\ pasted[g] = NoEntry


(***************************************************************************)
(* The daemon that is never terminated (checked under LiveSpec).           *)
(***************************************************************************)
\* file f exists and can be read
Readable(f) == src[f] # 0 /\ f \notin locked

\* nothing at the mirror path of f makes copy_file raise
MirrorFree(f) == dst[f].kind \notin {"dir", "same"}

\* file f exists and its content differs from its stored digest (checksums.json
\* is not being rewritten)
Differs(f) == src[f] # 0 /\ checksumsFile.state # "bad" /\ Md5(src[f]) # Persisted(f)

\* a copy of file f has been made since its content was last written
CopyMade(f) == history[f] = "mirrored"

\* C17: a changed file is eventually copied.  For a daemon that is never
\* terminated and is scheduled fairly, and a watched file that can always be read
\* and whose mirror path is free from some point on: whenever the file differs
\* from its stored digest and keeps its content from then on, a copy of it is
\* eventually made.
C17_ChangedFileEventuallyCopied ==
    \A f \in Files, c \in Contents :
        ([]Readable(f) /\ <>[]MirrorFree(f))
            => []((Differs(f) /\ [](src[f] = c)) => <>CopyMade(f))

\* the same for a file whose mirror path is free all the time
C17_UnobstructedFileEventuallyCopied ==
    \A f \in Files, c \in Contents :
        ([]Readable(f) /\ []MirrorFree(f))
            => []((Differs(f) /\ [](src[f] = c)) => <>CopyMade(f))


(***************************************************************************)
(* Removing a path (checked under RemoveSpec).                             *)
(***************************************************************************)
\* process p returns from its invocation at this step
Returns(p) == pc[p] \notin NotRunning /\ pc'[p] \in NotRunning

\* C26 as stated: when a remove of a syntactically valid path returns, the path
\* is not in the persisted list, whether it exists on the filesystem or not.
C26_RemoveAlwaysUnlists ==
    [][\A p \in Procs :
          (cmd[p] = "remove" /\ Returns(p) /\ is_valid_mac_path(arg[p]))
              => arg[p] \notin SeqRange(configFile'.items)]_vars

\* C26: remove_backup_item undoes add_backup_item for a path that exists.  A
\* remove of a valid, existing path loads the document as it is, takes the path
\* out of the loaded list and leaves the other entries in their order, and
\* persists that list with the loaded interval and destination, so that when it
\* returns the path is not listed; a remove of a path that does not exist any
\* more reports an error and returns without reading or writing the document.
C26_RemoveUnlistsExistingPath ==
    [][\A p \in Procs :
          cmd[p] = "remove" =>
              /\ (pc[p] = "r_check" /\ pc'[p] # pc[p] /\ ~Addable(arg[p]))
                    => (pc'[p] = "rejected" /\ configFile' = configFile)
              /\ (pc[p] = "r_config" /\ pc'[p] # pc[p])
                    => config'[p] = [interval |-> configFile.interval,
                                     dest |-> configFile.dest,
                                     items |-> configFile.items]
              /\ (pc[p] = "r_remove" /\ pc'[p] = "r_save")
                    => /\ config'[p].items = Without(config[p].items, arg[p])
                       /\ config'[p].interval = config[p].interval
                       /\ config'[p].dest = config[p].dest
              /\ (pc[p] = "r_saving" /\ pc'[p] # pc[p])
                    => configFile' = ConfigDoc(config[p])
              /\ (Returns(p) /\ Addable(arg[p]))
                    => arg[p] \notin SeqRange(configFile'.items)]_vars

\* C26's case: a remove of the listed directory has reported success and the
\* listed file is still listed; a remove of a listed file that was deleted has
\* been rejected and the file is still listed
C26_Witness ==
    \E p, q \in Procs :
        /\ cmd[p] = "remove" /\ pc[p] = "removed" /\ arg[p] = DataDir
        /\ DataDir \notin SeqRange(configFile.items)
        /\ cmd[q] = "remove" /\ pc[q] = "rejected" /\ arg[q] = FilePath(1)
        /\ src[1] = 0
        /\ FilePath(1) \in SeqRange(configFile.items)


(***************************************************************************)
(* Loads racing saves (checked under ConfigSpec).                          *)
(***************************************************************************)
\* C24: a load never observes a partially written document.  No process reads
\* config.json or checksums.json while another process's save has truncated it
\* and not yet written it, and the daemon never takes the exit of an unparseable
\* document.
C24_LoadNeverSeesPartialWrite ==
    [][\A p \in Procs :
          /\ (pc[p] \in LoadPcs /\ pc'[p] # pc[p]) => configFile.state # "bad"
          /\ (pc[p] = "d_load" /\ pc'[p] # pc[p]) => checksumsFile.state # "bad"
          /\ (pc[p] \in {"d_config", "d_load"} /\ pc'[p] # pc[p])
                => pc'[p] \notin {"exiting", "done"}]_vars

(***************************************************************************)
(* A stop after a returned start (checked under LifeSpec).                 *)
(***************************************************************************)
\* the start invocation of p has returned with status 0 (the exit of line 332)
\* and the daemon it created is alive
StartReturned(p) == cmd[p] = "start" /\ IsDaemon(p)

\* no other invocation has been made yet: every stop is still to be issued
NothingElseIssued(p) == \A r \in Procs \ {p} : pc[r] = "idle"

\* C23: a stop issued after a start invocation has returned with status 0 stops
\* the daemon that start created: once the start invocation's process has
\* exited, and before anything else is invoked, the marker exists and holds the
\* daemon's pid, so that a stop issued from then on never takes the
\* marker-absent branch of lines 384-385 while that daemon is alive.
C23_MarkerWrittenWhenStartReturns ==
    \A p \in Procs :
        (StartReturned(p) /\ NothingElseIssued(p))
            => (marker.exists /\ marker.pid = p)

(***************************************************************************)
(* The exit cleanup of a restarted daemon (checked under LifeSpec).        *)
(***************************************************************************)
\* q is the daemon a restart created after its stop_daemon signalled p, and the
\* marker holds q's pid
Replaced(p, q) ==
    /\ cmd[q] = "restart" /\ rpid[q] = p /\ IsDaemon(q)
    /\ marker.exists /\ marker.pid = q

\* remove_pidfile (lines 325-327) runs in p, which the SIGTERM of a stop_daemon
\* has reached (the handler of line 363 called sys.exit(0))
Cleanup(p) == pc[p] = "exiting" /\ pc'[p] = "done" /\ p \notin sigterm

\* C22: the exit cleanup of a daemon removes the marker only when the marker
\* records that daemon's own pid: the cleanup of the old daemon, terminated by
\* a restart, never removes the marker the new daemon has written, so the new
\* daemon runs with a marker that holds its pid.
C22_CleanupSparesNewMarker ==
    [][\A p, q \in Procs :
          (Cleanup(p) /\ Replaced(p, q)) => marker' = marker]_vars

(***************************************************************************)
(* Clearing the backup (checked under ClearSpec).                          *)
(***************************************************************************)
\* clear_backup_folder returns in process q after its walk
ClearReturns(q) == cmd[q] = "clear_destination" /\ pc[q] # "cleared" /\ pc'[q] = "cleared"

\* nothing lies under destination d after the step
NoFilesNext(d) == \A f \in Files : TreeNext(d)[f] = NoEntry

\* the daemon p ends the cycle that followed a completed clear_backup_folder
EndsCycleAfterClear(p) ==
    /\ pc[p] = "d_saved" /\ pc'[p] = "d_sleep"
    /\ \E q \in Procs : cmd[q] = "clear_destination" /\ pc[q] = "cleared"

\* clear_backup_folder, run while no cycle is in progress: what it leaves
\* when the destination exists, and what it does when the destination is missing
ClearLeavesEmptyBackup ==
    \A q \in Procs :
        /\ ClearReturns(q) =>
              /\ configFile.dest \in dirs'
              /\ NoFilesNext(configFile.dest)
              /\ checksumsFile' = [state |-> "ok", map |-> EmptyMap]
        /\ (cmd[q] = "clear_destination" /\ pc'[q] # pc[q] /\ configFile.dest \notin dirs)
              => /\ pc'[q] \in {"k_cfgwrite", "k_folder", "rejected"}
                 /\ checksumsFile' = checksumsFile
                 /\ fsVars' = fsVars

\* C21 as stated: after clear_backup_folder has completed on an existing backup
\* directory, with no cycle in progress, the directory exists and holds no
\* files, the checksum document is the empty mapping, and the next complete
\* cycle copies every resolved watched file again; with no backup directory
\* the command reports an error and leaves the checksum document unchanged.
C21_NextCycleCopiesEveryResolvedFile ==
    [][/\ ClearLeavesEmptyBackup
       /\ \A p \in Procs :
             EndsCycleAfterClear(p) => \A f \in Resolved(p) : f \in copied[p]]_vars

\* C21, amended: the next complete cycle copies every resolved watched file
\* that can be read, and its mirror then holds the file's content; a resolved
\* file that cannot be read is skipped, as in every cycle.
C21_NextCycleCopiesEveryReadableFile ==
    [][/\ ClearLeavesEmptyBackup
       /\ \A p \in Procs :
             EndsCycleAfterClear(p) =>
                 \A f \in Resolved(p) :
                     /\ Readable(f) => (f \in copied[p] /\ Mirror(config[p].dest, f) = FileEntry(src[f]))
                     /\ ~Readable(f) => (f \notin copied[p] /\ Mirror(config[p].dest, f) = NoEntry)]_vars

\* the cycle after a clear that removed a file has copied a file again
C21_Witness ==
    \E p, q \in Procs :
        /\ cmd[q] = "clear_destination" /\ pc[q] = "cleared"
        /\ pc[p] = "d_saved" /\ age = 2
        /\ copied[p] # {}
        /\ \E f \in Files : f \in locked /\ f \notin copied[p]

(***************************************************************************)
(* The checksum document and the backup tree (checked under RaceSpec).     *)
(***************************************************************************)
\* no cycle, clear_backup_folder or change_backup_destination is in progress
Quiet == \A p \in Procs : pc[p] \in NotRunning \cup {"d_sleep"}

\* the persisted entry of f is the digest of its current content
UpToDate(f) ==
    /\ checksumsFile.state = "ok"
    /\ src[f] # 0
    /\ Persisted(f) = Md5(src[f])

\* C25: the checksum document never gets ahead of the backup tree.  In every
\* state in which no cycle, clear_backup_folder or change_backup_destination
\* is in progress, whatever the interleaving of those commands with a running
\* cycle has been, every file whose persisted checksum entry equals its
\* current source digest has a mirror with that content under the configured
\* backup_destination.
C25_ChecksumsNeverAheadOfBackup ==
    (Quiet /\ configFile.state = "ok") =>
        \A f \in Files :
            UpToDate(f) => Tree(configFile.dest)[f] = FileEntry(src[f])

=============================================================================
